---- MODULE Spec2Model ----
(***************************************************************************)
(* Anomaly classification and tiered ingestion (cprakash0105/iotmlpipeline) *)
(*                                                                         *)
(* The module models                                                       *)
(*   - AnomalyDetector (src/ml-models/anomaly_detector.py): the trainable, *)
(*     persistable classifier;                                             *)
(*   - MonitoredPipeline (src/dashboard/monitored_pipeline.py): startup    *)
(*     and the cycle loop over the object-store and relational sinks;      *)
(*   - GrafanaOptimizedPipeline (src/dashboard/grafana_optimized_pipeline  *)
(*     .py): the same loop with metric and event inserts on the sink's     *)
(*     connection;                                                         *)
(*   - SimplifiedIoTPipeline (src/simplified_architecture.py): the loop    *)
(*     that writes to the relational store inline.                         *)
(*                                                                         *)
(* scikit-learn, pickle, boto3 and psycopg2 are the environment.  The      *)
(* classifier is a deterministic stand-in for StandardScaler and           *)
(* IsolationForest (fitted parameters are a function of the training       *)
(* features, a prediction is a function of the parameters and the row);    *)
(* the relational connection follows psycopg2: statements open a           *)
(* transaction, a failed statement aborts it until the next commit or      *)
(* rollback, close() discards what is uncommitted.                         *)
(***************************************************************************)
EXTENDS Integers, Sequences, FiniteSets, TLC

VARIABLES
    detector,       \* self.detector: [model, scaler, is_trained]
    disk,           \* the persisted model blob (anomaly_model.pkl)
    call,           \* the last AnomalyDetector call and what it returned
    saver,          \* history: the detector as it was at the last completed save_model
    ever_ok,        \* history: some train or load_model has completed
    pc,             \* position of the pipeline process
    exit,           \* why the process left the cycle loop
    conn,           \* self.conn: "None", "open" or "closed"
    s3_client,      \* self.s3_client: 0 for None, else the adopted endpoint
    db,             \* the relational store as seen through the connection
    buckets,        \* the object store: bronze, silver, gold
    stats,          \* self.stats
    batch_count,    \* run_pipeline's batch_count
    idx,            \* position in self.sensors of the reading in flight
    reading,        \* the reading in flight
    prediction,     \* its classification
    minio_success,  \* save_to_minio's return value for it
    db_success,     \* save_to_database's return value for it
    log,            \* the per-reading log lines written by run_pipeline
    faults,         \* object-store errors injected so far
    outcomes,       \* history: per dispatched reading, how each sink write ended
    probed,         \* history: the endpoints setup_minio probed, with each result
    snapshots,      \* history: the copies of self.stats printed or persisted
    db_connected    \* self.db_connected: "unassigned" until the attribute is set

vars == <<detector, disk, call, saver, ever_ok, pc, exit, conn, s3_client, db,
          buckets, stats, batch_count, idx, reading, prediction, minio_success,
          db_success, log, faults, outcomes, probed, snapshots, db_connected>>

detectorVars == <<detector, disk, call, saver, ever_ok>>
pipelineVars == <<pc, exit, conn, s3_client, db, buckets, stats, batch_count, idx,
                  reading, prediction, minio_success, db_success, log, faults,
                  outcomes, probed, snapshots, db_connected>>

----------------------------------------------------------------------------
(* Bounds of the model *)

\* longest reading sequence handed to train and predict
MaxLen == 2
\* readings dispatched in one run
MaxReadings == 4
\* sensors of self.sensors that are kept (the code configures five)
NumSensors == 2
\* object-store errors injected in one run (one error of the relational
\* connection aborts its transaction for the rest of the run, so those need
\* no budget)
MaxFaults == 1

----------------------------------------------------------------------------
(* Readings *)

NORMAL == 0
ANOMALOUS == -1

\* A reading's measured values: a normal one, an anomalous one, one with
\* humidity 0 (random.uniform(0, 20) rounded to two places can be 0.0).
Measurements ==
    { [temperature |-> 22, humidity |-> 55],
      [temperature |-> 95, humidity |-> 8],
      [temperature |-> 24, humidity |-> 0] }

RECURSIVE SeqsUpTo(_, _)
SeqsUpTo(S, n) ==
    IF n = 0 THEN { <<>> }
    ELSE LET shorter == SeqsUpTo(S, n - 1)
         IN  shorter \cup { Append(s, x) : s \in { t \in shorter : Len(t) = n - 1 }, x \in S }

Inputs == SeqsUpTo(Measurements, MaxLen)

Abs(x) == IF x < 0 THEN -x ELSE x

RECURSIVE SumSeq(_)
SumSeq(s) == IF s = <<>> THEN 0 ELSE Head(s) + SumSeq(Tail(s))

RECURSIVE MaxSeq(_)
MaxSeq(s) ==
    IF s = <<>> THEN 0
    ELSE LET m == MaxSeq(Tail(s)) IN IF Head(s) > m THEN Head(s) ELSE m

----------------------------------------------------------------------------
(* AnomalyDetector *)

\* AnomalyDetector.__init__
NewDetector == [model |-> [fitted |-> FALSE], scaler |-> [fitted |-> FALSE],
                is_trained |-> FALSE]

\* The ratio feature, a fraction <<numerator, denominator>>.
extract_ratio(record) ==
    IF record.humidity > 0 THEN <<record.temperature, record.humidity>> ELSE <<0, 1>>

\* extract_features: one row [temperature, humidity, ratio] per record
extract_features(data) ==
    [i \in 1..Len(data) |->
        <<data[i].temperature, data[i].humidity, extract_ratio(data[i])>>]

\* StandardScaler.fit: per-feature centre of the rows (stand-in: integer means)
scaler_fit(features) ==
    [fitted |-> TRUE,
     mean_t |-> SumSeq([i \in 1..Len(features) |-> features[i][1]]) \div Len(features),
     mean_h |-> SumSeq([i \in 1..Len(features) |-> features[i][2]]) \div Len(features)]

\* StandardScaler.transform of one row
scaler_transform(sc, row) == <<row[1] - sc.mean_t, row[2] - sc.mean_h>>

\* how far a scaled row lies from the centre
isolation(srow) == Abs(srow[1]) + Abs(srow[2])

\* IsolationForest.fit (stand-in: the largest distance seen in training)
forest_fit(scaled) ==
    [fitted |-> TRUE, cut |-> MaxSeq([i \in 1..Len(scaled) |-> isolation(scaled[i])])]

\* IsolationForest.predict of one scaled row: -1 for an outlier, 1 otherwise
forest_predict(m, srow) == IF isolation(srow) > m.cut THEN -1 ELSE 1

\* AnomalyDetector.train: [d |-> the detector afterwards, raised |-> whether it raised].
\* StandardScaler.fit resets the scaler before it validates its input, and an
\* empty feature array is rejected.
train(d, data) ==
    LET features == extract_features(data) IN
    IF Len(data) = 0
    THEN [d |-> [d EXCEPT !.scaler = [fitted |-> FALSE]], raised |-> TRUE]
    ELSE LET sc     == scaler_fit(features)
             scaled == [i \in 1..Len(features) |-> scaler_transform(sc, features[i])]
         IN  [d |-> [model |-> forest_fit(scaled), scaler |-> sc, is_trained |-> TRUE],
              raised |-> FALSE]

\* the body of predict once is_trained holds
predict_trained(d, data) ==
    LET features == extract_features(data) IN
    IF ~d.scaler.fitted \/ Len(data) = 0 \/ ~d.model.fitted
    THEN [raised |-> TRUE, value |-> <<>>]
    ELSE [raised |-> FALSE,
          value  |-> [i \in 1..Len(data) |->
                        LET p == forest_predict(d.model, scaler_transform(d.scaler, features[i]))
                        IN  IF p = -1 THEN -1 ELSE 0]]

\* a predict that scores without looking at is_trained
predict_unguarded(d, data) == predict_trained(d, data)

\* AnomalyDetector.predict: [raised, value]
predict(d, data) ==
    IF ~d.is_trained
    THEN [raised |-> FALSE, value |-> [i \in 1..Len(data) |-> 0]]
    ELSE predict_trained(d, data)

\* What the blob file can hold.
NoFile == [kind |-> "missing"]
Corrupt == [kind |-> "corrupt"]
Blob(m, s) == [kind |-> "dict", keys |-> {"model", "scaler"}, model |-> m, scaler |-> s]

\* AnomalyDetector.save_model: [file, raised].  open(path, 'wb') can fail and
\* leave the file as it was; pickle.dump can fail after the file was truncated.
save_model(d, file, outcome) ==
    CASE outcome = "ok"        -> [file |-> Blob(d.model, d.scaler), raised |-> FALSE]
      [] outcome = "open_fails" -> [file |-> file, raised |-> TRUE]
      [] outcome = "dump_fails" -> [file |-> Corrupt, raised |-> TRUE]

\* AnomalyDetector.load_model: [d, raised]
load_model(d, file) ==
    IF file.kind # "dict" THEN [d |-> d, raised |-> TRUE]
    ELSE IF "model" \notin file.keys THEN [d |-> d, raised |-> TRUE]
    ELSE IF "scaler" \notin file.keys
         THEN [d |-> [d EXCEPT !.model = file.model], raised |-> TRUE]
    ELSE [d |-> [model |-> file.model, scaler |-> file.scaler, is_trained |-> TRUE],
          raised |-> FALSE]

----------------------------------------------------------------------------
(* The AnomalyDetector under any sequence of calls *)

\* generate_training_data, cut to two normal readings
TrainingData ==
    << [temperature |-> 22, humidity |-> 55], [temperature |-> 24, humidity |-> 51] >>

FittedModel == train(NewDetector, TrainingData).d.model

\* Files found at the model path that no save_model of this code wrote.
ForeignFiles ==
    { NoFile, Corrupt,
      [kind |-> "dict", keys |-> {"model"}, model |-> FittedModel],
      [kind |-> "dict", keys |-> {"scaler"}, scaler |-> [fitted |-> FALSE]] }

NoCall == [op |-> "none", arg |-> <<>>, raised |-> FALSE, value |-> <<>>]
NoSaver == [valid |-> FALSE]

NoReading == [id |-> <<0, 0>>, temperature |-> 0, humidity |-> 0]
EmptyDb ==
    [status |-> "idle", pending |-> {},
     sensor_readings |-> {}, anomaly_alerts |-> {}, others |-> {}]
EmptyBuckets == [bronze |-> {}, silver |-> {}, gold |-> {}]
ZeroStats ==
    [total_readings |-> 0, anomalies_detected |-> 0, minio_uploads |-> 0,
     db_saves |-> 0, errors |-> 0]

\* the pipeline before its constructor has run
PipelineIdle(at) ==
    /\ pc = at
    /\ exit = "none"
    /\ conn = "None"
    /\ s3_client = 0
    /\ db = EmptyDb
    /\ buckets = EmptyBuckets
    /\ stats = ZeroStats
    /\ batch_count = 0
    /\ idx = 0
    /\ reading = NoReading
    /\ prediction = 0
    /\ minio_success = FALSE
    /\ db_success = FALSE
    /\ log = <<>>
    /\ faults = 0
    /\ outcomes = <<>>
    /\ probed = <<>>
    /\ snapshots = {}
    /\ db_connected = "unassigned"

DetectorInit ==
    /\ detector = NewDetector
    /\ disk \in ForeignFiles
    /\ call = NoCall
    /\ saver = NoSaver
    /\ ever_ok = FALSE
    /\ PipelineIdle("detector")

\* detector = AnomalyDetector()
D_new ==
    /\ detector' = NewDetector
    /\ call' = [NoCall EXCEPT !.op = "new"]
    /\ ever_ok' = FALSE
    /\ UNCHANGED <<disk, saver>>
    /\ UNCHANGED pipelineVars

\* detector.train(data)
D_train ==
    \E data \in Inputs :
        LET r == train(detector, data) IN
        /\ detector' = r.d
        /\ call' = [op |-> "train", arg |-> data, raised |-> r.raised, value |-> <<>>]
        /\ ever_ok' = (ever_ok \/ ~r.raised)
        /\ UNCHANGED <<disk, saver>>
        /\ UNCHANGED pipelineVars

\* detector.predict(data)
D_predict ==
    \E data \in Inputs :
        LET r == predict(detector, data) IN
        /\ call' = [op |-> "predict", arg |-> data, raised |-> r.raised, value |-> r.value]
        /\ UNCHANGED <<detector, disk, saver, ever_ok>>
        /\ UNCHANGED pipelineVars

\* detector.save_model(path)
D_save ==
    \E outcome \in {"ok", "open_fails", "dump_fails"} :
        LET r == save_model(detector, disk, outcome) IN
        /\ disk' = r.file
        /\ call' = [op |-> "save_model", arg |-> <<>>, raised |-> r.raised, value |-> <<>>]
        /\ saver' = IF r.raised THEN saver ELSE [valid |-> TRUE, d |-> detector]
        /\ UNCHANGED <<detector, ever_ok>>
        /\ UNCHANGED pipelineVars

\* detector.load_model(path)
D_load ==
    LET r == load_model(detector, disk) IN
    /\ detector' = r.d
    /\ call' = [op |-> "load_model", arg |-> <<>>, raised |-> r.raised, value |-> <<>>]
    /\ ever_ok' = (ever_ok \/ ~r.raised)
    /\ UNCHANGED <<disk, saver>>
    /\ UNCHANGED pipelineVars

DetectorNext == D_new \/ D_train \/ D_predict \/ D_save \/ D_load

SpecDetector == DetectorInit /\ [][DetectorNext]_vars

----------------------------------------------------------------------------
(* The relational connection (psycopg2) *)

\* cursor.execute of an INSERT: [db, raised].  A statement the server rejects
\* aborts the transaction; in an aborted transaction every statement is
\* rejected; on a closed connection every call raises.
db_execute(c, d, table, row, fails) ==
    IF c = "closed" THEN [db |-> d, raised |-> TRUE]
    ELSE IF d.status = "inerror" \/ fails
    THEN [db |-> [d EXCEPT !.status = "inerror", !.pending = {}], raised |-> TRUE]
    ELSE [db |-> [d EXCEPT !.status = "intrans", !.pending = @ \cup {<<table, row>>}],
          raised |-> FALSE]

PendingOf(d, table) == { e[2] : e \in { x \in d.pending : x[1] = table } }

\* conn.commit(): [db, raised].  Committing an aborted transaction rolls it back.
db_commit(c, d, fails) ==
    IF c = "closed" THEN [db |-> d, raised |-> TRUE]
    ELSE IF fails
    THEN [db |-> [d EXCEPT !.status = "inerror", !.pending = {}], raised |-> TRUE]
    ELSE [db |-> [status |-> "idle", pending |-> {},
                  sensor_readings |-> d.sensor_readings \cup PendingOf(d, "sensor_readings"),
                  anomaly_alerts |-> d.anomaly_alerts \cup PendingOf(d, "anomaly_alerts"),
                  others |-> d.others \cup
                             { e \in d.pending : e[1] \notin {"sensor_readings", "anomaly_alerts"} }],
          raised |-> FALSE]

\* conn.close(): what is uncommitted is discarded
db_close(d) == [d EXCEPT !.status = "idle", !.pending = {}]

----------------------------------------------------------------------------
(* MonitoredPipeline: the sinks *)

\* the row and the object written for a reading
Row(rd, pred) == [id |-> rd.id, ml_prediction |-> pred]

\* the anomaly_alerts row written for a reading
AlertRow(rd) == [id |-> rd.id, alert_type |-> "ML_DETECTED"]

\* a routing that files every reading under silver
tier_for_silver(pred) == "silver"

\* the bucket besides bronze that a prediction selects
tier_for(pred) == IF pred = -1 THEN "gold" ELSE "silver"

\* a save_to_minio whose try block has no except clause
save_to_minio_uncaught(s3, b, st, rd, pred, failAt, intAt) ==
    LET b1 == [b EXCEPT !.bronze = @ \cup {Row(rd, pred)}]
        b2 == [b1 EXCEPT ![IF pred = -1 THEN "gold" ELSE "silver"] = @ \cup {Row(rd, pred)}]
        escaped(bb) == [buckets |-> bb, stats |-> st, ret |-> FALSE, flow |-> "raise",
                        kind |-> "failed"]
    IN  IF s3 = 0
        THEN [buckets |-> b, stats |-> st, ret |-> FALSE, flow |-> "return",
              kind |-> "skipped"]
        ELSE IF failAt = 1 THEN escaped(b)
        ELSE IF failAt = 2 THEN escaped(b1)
        ELSE [buckets |-> b2, stats |-> [st EXCEPT !.minio_uploads = @ + 1],
              ret |-> TRUE, flow |-> "return", kind |-> "ok"]

\* a save_to_minio that puts the silver or gold object before the bronze one
save_to_minio_tier_first(s3, b, st, rd, pred, failAt, intAt) ==
    LET failed(bb) == [buckets |-> bb, stats |-> [st EXCEPT !.errors = @ + 1],
                       ret |-> FALSE, flow |-> "return", kind |-> "failed"]
        broken(bb) == [buckets |-> bb, stats |-> st, ret |-> FALSE,
                       flow |-> "interrupt", kind |-> "interrupted"]
        b1 == [b EXCEPT ![tier_for(pred)] = @ \cup {Row(rd, pred)}]
        b2 == [b1 EXCEPT !.bronze = @ \cup {Row(rd, pred)}]
    IN  IF s3 = 0
        THEN [buckets |-> b, stats |-> st, ret |-> FALSE, flow |-> "return",
              kind |-> "skipped"]
        ELSE IF failAt = 1 THEN failed(b)
        ELSE IF intAt = 1 THEN broken(b1)
        ELSE IF failAt = 2 THEN failed(b1)
        ELSE IF intAt = 2 THEN broken(b2)
        ELSE [buckets |-> b2, stats |-> [st EXCEPT !.minio_uploads = @ + 1],
              ret |-> TRUE, flow |-> "return", kind |-> "ok"]

\* MonitoredPipeline.save_to_minio: [buckets, stats, ret, flow, kind].  failAt
\* names the put_object that raises (0: none), intAt the put_object after
\* which a KeyboardInterrupt arrives (0: none).  flow is how control leaves
\* the method, kind how the write ended.
save_to_minio(s3, b, st, rd, pred, failAt, intAt) ==
    LET failed(bb) == [buckets |-> bb, stats |-> [st EXCEPT !.errors = @ + 1],
                       ret |-> FALSE, flow |-> "return", kind |-> "failed"]
        broken(bb) == [buckets |-> bb, stats |-> st, ret |-> FALSE,
                       flow |-> "interrupt", kind |-> "interrupted"]
        b1 == [b EXCEPT !.bronze = @ \cup {Row(rd, pred)}]
        b2 == [b1 EXCEPT ![tier_for(pred)] = @ \cup {Row(rd, pred)}]
    IN  IF s3 = 0
        THEN [buckets |-> b, stats |-> st, ret |-> FALSE, flow |-> "return",
              kind |-> "skipped"]
        ELSE IF failAt = 1 THEN failed(b)
        ELSE IF intAt = 1 THEN broken(b1)
        ELSE IF failAt = 2 THEN failed(b1)
        ELSE IF intAt = 2 THEN broken(b2)
        ELSE [buckets |-> b2, stats |-> [st EXCEPT !.minio_uploads = @ + 1],
              ret |-> TRUE, flow |-> "return", kind |-> "ok"]

\* a try block that writes the alert row for every reading
db_write_always_alert(c, d, rd, pred, failAt, intAt) ==
    LET e1 == db_execute(c, d, "sensor_readings", Row(rd, pred), failAt = 1)
        e2 == db_execute(c, e1.db, "anomaly_alerts", AlertRow(rd), failAt = 2)
        e3 == db_commit(c, e2.db, failAt = 3)
    IN  IF e1.raised \/ e2.raised \/ e3.raised
        THEN [db |-> e3.db, flow |-> "raise"]
        ELSE IF intAt # 0 THEN [db |-> db_close(e1.db), flow |-> "interrupt"]
        ELSE [db |-> e3.db, flow |-> "done"]

\* the statements of save_to_database's try block, up to the commit:
\* [db, flow]
db_write(c, d, rd, pred, failAt, intAt) ==
    LET e1 == db_execute(c, d, "sensor_readings", Row(rd, pred), failAt = 1)
        e2 == IF pred = -1
              THEN db_execute(c, e1.db, "anomaly_alerts", AlertRow(rd), failAt = 2)
              ELSE [db |-> e1.db, raised |-> FALSE]
        e3 == db_commit(c, e2.db, failAt = 3)
    IN  IF e1.raised THEN [db |-> e1.db, flow |-> "raise"]
        ELSE IF intAt = 1 THEN [db |-> e1.db, flow |-> "interrupt"]
        ELSE IF e2.raised THEN [db |-> e2.db, flow |-> "raise"]
        ELSE IF intAt = 2 THEN [db |-> e2.db, flow |-> "interrupt"]
        ELSE IF e3.raised THEN [db |-> e3.db, flow |-> "raise"]
        ELSE IF intAt = 3 THEN [db |-> e3.db, flow |-> "interrupt"]
        ELSE [db |-> e3.db, flow |-> "done"]

\* how a write that a KeyboardInterrupt cut short has ended: abandoned before
\* its commit, or committed without having returned
abandoned(intAt) == IF intAt = 3 THEN "unreported" ELSE "interrupted"

\* MonitoredPipeline.save_to_database: [db, stats, ret, flow, kind]
save_to_database(c, d, st, rd, pred, failAt, intAt) ==
    IF c = "None"
    THEN [db |-> d, stats |-> st, ret |-> FALSE, flow |-> "return", kind |-> "skipped"]
    ELSE LET w == db_write(c, d, rd, pred, failAt, intAt) IN
         CASE w.flow = "done" ->
                [db |-> w.db, stats |-> [st EXCEPT !.db_saves = @ + 1],
                 ret |-> TRUE, flow |-> "return", kind |-> "ok"]
           [] w.flow = "raise" ->
                [db |-> w.db, stats |-> [st EXCEPT !.errors = @ + 1],
                 ret |-> FALSE, flow |-> "return", kind |-> "failed"]
           [] w.flow = "interrupt" ->
                [db |-> w.db, stats |-> st, ret |-> FALSE, flow |-> "interrupt",
                 kind |-> abandoned(intAt)]

\* MonitoredPipeline.update_pipeline_stats: the database afterwards
update_pipeline_stats(c, d, st, failAt) ==
    IF c = "None" THEN d
    ELSE LET e1 == db_execute(c, d, "pipeline_stats", st, failAt = 1)
             e2 == db_commit(c, e1.db, failAt = 2)
         IN  IF e1.raised THEN e1.db ELSE e2.db

\* Which injected errors and interrupts an action may draw: an error needs a
\* statement that would otherwise run, the interrupt comes once.
MayFail(failAt, intAt) ==
    /\ failAt = 0 \/ intAt = 0
    /\ intAt # 0 => exit = "none"

----------------------------------------------------------------------------
(* AnomalyDetector called with records of any temperature and humidity: train
   and predict take whatever list of dicts the caller passes *)

\* the records a caller can pass: those of Measurements and one whose
\* humidity is below 0
Records == Measurements \cup { [temperature |-> 20, humidity |-> -5] }

\* detector.train(data) on any records
X_train ==
    \E data \in SeqsUpTo(Records, MaxLen) :
        LET r == train(detector, data) IN
        /\ detector' = r.d
        /\ call' = [op |-> "train", arg |-> data, raised |-> r.raised, value |-> <<>>]
        /\ ever_ok' = (ever_ok \/ ~r.raised)
        /\ UNCHANGED <<disk, saver>>
        /\ UNCHANGED pipelineVars

\* detector.predict(data) on any records
X_predict ==
    \E data \in SeqsUpTo(Records, MaxLen) :
        LET r == predict(detector, data) IN
        /\ call' = [op |-> "predict", arg |-> data, raised |-> r.raised, value |-> r.value]
        /\ UNCHANGED <<detector, disk, saver, ever_ok>>
        /\ UNCHANGED pipelineVars

FeaturesNext ==
    \/ X_train
    \/ X_predict

SpecFeatures == DetectorInit /\ [][FeaturesNext]_vars

----------------------------------------------------------------------------
(* MonitoredPipeline: construction and run_pipeline *)

\* self.sensors
sensors == [i \in 1..NumSensors |-> i]

\* the candidate endpoints of setup_minio, in list order
NumEndpoints == 3
endpoints == [i \in 1..NumEndpoints |-> i]

\* what generate_sensor_reading can draw
Generated ==
    { [temperature |-> 22, humidity |-> 55], [temperature |-> 95, humidity |-> 8] }

\* Model files a pipeline can find at startup: none, an unreadable one, one
\* saved by a trained detector, one saved by a detector that was never trained.
StartupFiles ==
    { NoFile, Corrupt,
      Blob(train(NewDetector, TrainingData).d.model, train(NewDetector, TrainingData).d.scaler),
      Blob(NewDetector.model, NewDetector.scaler) }

Init ==
    /\ detector = NewDetector
    /\ disk \in StartupFiles
    /\ call = NoCall
    /\ saver = NoSaver
    /\ ever_ok = FALSE
    /\ PipelineIdle("load_model")

\* MonitoredPipeline.load_model and train_model: a failed load trains a new
\* model and saves it; an error of the save leaves the constructor.
M_load_model ==
    /\ pc = "load_model"
    /\ LET l == load_model(detector, disk) IN
       IF ~l.raised
       THEN /\ detector' = l.d
            /\ pc' = "setup_database"
            /\ UNCHANGED <<disk, exit>>
       ELSE \E outcome \in {"ok", "open_fails", "dump_fails"} :
                LET t == train(l.d, TrainingData)
                    w == save_model(t.d, disk, outcome)
                IN  /\ detector' = t.d
                    /\ disk' = w.file
                    /\ pc' = IF w.raised THEN "dead" ELSE "setup_database"
                    /\ exit' = IF w.raised THEN "startup" ELSE exit
    /\ ever_ok' = TRUE
    /\ UNCHANGED <<call, saver, conn, s3_client, db, buckets, stats,
                   batch_count, idx, reading, prediction, minio_success, db_success,
                   log, faults, outcomes>>
    /\ UNCHANGED <<probed, snapshots>>
    /\ UNCHANGED db_connected

\* MonitoredPipeline.setup_database: any error leaves self.conn = None
M_setup_database ==
    /\ pc = "setup_database"
    /\ \E ok \in BOOLEAN : conn' = IF ok THEN "open" ELSE "None"
    /\ pc' = "setup_minio"
    /\ UNCHANGED <<detector, disk, call, saver, ever_ok, exit, s3_client, db, buckets,
                   stats, batch_count, idx, reading, prediction, minio_success,
                   db_success, log, faults, outcomes>>
    /\ UNCHANGED <<probed, snapshots>>
    /\ UNCHANGED db_connected

\* setup_minio's loop over the first n endpoints, from the i-th on: list_buckets
\* is called on each in turn and the first client that answers is kept;
\* [client, probed], client 0 when none answered
RECURSIVE probe_from(_, _, _, _)
probe_from(i, n, up, tried) ==
    IF i > n THEN [client |-> 0, probed |-> tried]
    ELSE IF endpoints[i] \in up
    THEN [client |-> endpoints[i],
          probed |-> Append(tried, [endpoint |-> endpoints[i], ok |-> TRUE])]
    ELSE probe_from(i + 1, n, up, Append(tried, [endpoint |-> endpoints[i], ok |-> FALSE]))

\* a loop without the break: every endpoint is probed and the last client that
\* answered is kept
RECURSIVE probe_all_from(_, _, _, _, _)
probe_all_from(i, n, up, tried, client) ==
    IF i > n THEN [client |-> client, probed |-> tried]
    ELSE probe_all_from(i + 1, n, up,
                        Append(tried, [endpoint |-> endpoints[i], ok |-> endpoints[i] \in up]),
                        IF endpoints[i] \in up THEN endpoints[i] ELSE client)

setup_minio_no_break(n, up) == probe_all_from(1, n, up, <<>>, 0)

\* setup_minio over a list of n endpoints of which those in `up` answer
setup_minio(n, up) == probe_from(1, n, up, <<>>)

\* the first endpoint of the list whose list_buckets answers, 0 when none does
first_responding(up) == setup_minio(NumEndpoints, up).client

\* MonitoredPipeline.setup_minio
M_setup_minio ==
    /\ pc = "setup_minio"
    /\ \E up \in SUBSET {endpoints[i] : i \in 1..NumEndpoints} :
           /\ s3_client' = first_responding(up)
           /\ probed' = setup_minio(NumEndpoints, up).probed
    /\ pc' = "loop"
    /\ UNCHANGED <<detector, disk, call, saver, ever_ok, exit, conn, db, buckets,
                   stats, batch_count, idx, reading, prediction, minio_success,
                   db_success, log, faults, outcomes>>
    /\ UNCHANGED snapshots
    /\ UNCHANGED db_connected

\* a loop head that tries the first endpoint again while there is no client
M_begin_batch_reconnect ==
    /\ pc = "loop"
    /\ Len(log) < MaxReadings
    /\ batch_count' = batch_count + 1
    /\ idx' = 1
    /\ pc' = "generate"
    /\ \E up \in SUBSET {endpoints[1]} :
          /\ s3_client' = IF s3_client = 0 THEN setup_minio(1, up).client ELSE s3_client
          /\ probed' = IF s3_client = 0 THEN probed \o setup_minio(1, up).probed ELSE probed
    /\ UNCHANGED <<detector, disk, call, saver, ever_ok, exit, conn, db,
                   buckets, stats, reading, prediction, minio_success, db_success,
                   log, faults, outcomes>>
    /\ UNCHANGED snapshots
    /\ UNCHANGED db_connected

\* run_pipeline: the head of while True
M_begin_batch ==
    /\ pc = "loop"
    /\ Len(log) < MaxReadings
    /\ batch_count' = batch_count + 1
    /\ idx' = 1
    /\ pc' = "generate"
    /\ UNCHANGED <<detector, disk, call, saver, ever_ok, exit, conn, s3_client, db,
                   buckets, stats, reading, prediction, minio_success, db_success,
                   log, faults, outcomes>>
    /\ UNCHANGED <<probed, snapshots>>
    /\ UNCHANGED db_connected

\* how one reading's sink writes have ended so far
Pending(id, pred) ==
    [id |-> id, ml_prediction |-> pred, minio |-> "pending", database |-> "pending"]
SetLast(seq, field, v) == [seq EXCEPT ![Len(seq)][field] = v]

\* run_pipeline: generate_sensor_reading and detector.predict([reading])[0];
\* an error of predict reaches run_pipeline's except Exception
M_generate ==
    /\ pc = "generate"
    /\ Len(log) < MaxReadings
    /\ \E m \in Generated :
         LET rd == [id |-> <<batch_count, sensors[idx]>>,
                    temperature |-> m.temperature, humidity |-> m.humidity]
             p  == predict(detector, <<rd>>)
         IN  /\ reading' = rd
             /\ IF p.raised
                THEN /\ pc' = "crashed"
                     /\ exit' = "predict_error"
                     /\ UNCHANGED <<prediction, outcomes>>
                ELSE /\ pc' = "save_to_minio"
                     /\ prediction' = p.value[1]
                     /\ outcomes' = Append(outcomes, Pending(rd.id, p.value[1]))
                     /\ UNCHANGED exit
    /\ UNCHANGED <<detector, disk, call, saver, ever_ok, conn, s3_client, db, buckets,
                   stats, batch_count, idx, minio_success, db_success, log, faults>>
    /\ UNCHANGED <<probed, snapshots>>
    /\ UNCHANGED db_connected

\* a loop that gives up on a reading once a sink write returned False
after_sink_skip(flow, ret, next) ==
    CASE flow = "return"    -> IF ret THEN next ELSE "count"
      [] flow = "interrupt" -> "interrupted"
      [] flow = "raise"     -> "crashed"

\* where run_pipeline goes when a sink write leaves with `flow`
after_sink(flow, ret, next) ==
    CASE flow = "return"    -> next
      [] flow = "interrupt" -> "interrupted"
      [] flow = "raise"     -> "crashed"

exit_after(flow, old) ==
    CASE flow = "return"    -> old
      [] flow = "interrupt" -> "interrupt"
      [] flow = "raise"     -> "sink_error"

\* run_pipeline: minio_success = self.save_to_minio(reading, prediction)
M_save_to_minio ==
    /\ pc = "save_to_minio"
    /\ \E failAt \in 0..2, intAt \in 0..2 :
         /\ MayFail(failAt, intAt)
         /\ failAt # 0 => (s3_client # 0 /\ faults < MaxFaults)
         /\ LET r == save_to_minio(s3_client, buckets, stats, reading, prediction,
                                   failAt, intAt)
            IN  /\ buckets' = r.buckets
                /\ stats' = r.stats
                /\ minio_success' = r.ret
                /\ outcomes' = SetLast(outcomes, "minio", r.kind)
                /\ faults' = IF failAt # 0 THEN faults + 1 ELSE faults
                /\ pc' = after_sink(r.flow, r.ret, "save_to_database")
                /\ exit' = exit_after(r.flow, exit)
    /\ UNCHANGED <<detector, disk, call, saver, ever_ok, conn, s3_client, db,
                   batch_count, idx, reading, prediction, db_success, log>>
    /\ UNCHANGED <<probed, snapshots>>
    /\ UNCHANGED db_connected

\* run_pipeline: db_success = self.save_to_database(reading, prediction)
M_save_to_database ==
    /\ pc = "save_to_database"
    /\ \E failAt \in 0..3, intAt \in 0..3 :
         /\ MayFail(failAt, intAt)
         /\ failAt # 0 => (conn = "open" /\ db.status # "inerror")
         /\ failAt = 2 => prediction = -1
         /\ LET r == save_to_database(conn, db, stats, reading, prediction, failAt, intAt)
            IN  /\ db' = r.db
                /\ stats' = r.stats
                /\ db_success' = r.ret
                /\ outcomes' = SetLast(outcomes, "database", r.kind)
                /\ pc' = after_sink(r.flow, r.ret, "count")
                /\ exit' = exit_after(r.flow, exit)
    /\ UNCHANGED <<detector, disk, call, saver, ever_ok, conn, s3_client, buckets,
                   batch_count, idx, reading, prediction, minio_success, log, faults>>
    /\ UNCHANGED <<probed, snapshots>>
    /\ UNCHANGED db_connected

\* counters that count a reading only when some sink stored it
count_reading_stored(st, pred, minio_ok, db_ok) ==
    IF minio_ok \/ db_ok
    THEN [st EXCEPT !.total_readings = @ + 1,
                    !.anomalies_detected = IF pred = -1 THEN @ + 1 ELSE @]
    ELSE st

\* run_pipeline: the counters kept per reading
count_reading(st, pred, minio_ok, db_ok) ==
    [st EXCEPT !.total_readings = @ + 1,
               !.anomalies_detected = IF pred = -1 THEN @ + 1 ELSE @]

\* run_pipeline: the counters and the log line of the reading, then the next sensor
M_count ==
    /\ pc = "count"
    /\ stats' = count_reading(stats, prediction, minio_success, db_success)
    /\ log' = Append(log, [id |-> reading.id, ml_prediction |-> prediction])
    /\ IF idx < Len(sensors)
       THEN /\ idx' = idx + 1
            /\ pc' = "generate"
       ELSE /\ idx' = idx
            /\ pc' = "update_pipeline_stats"
    /\ UNCHANGED <<detector, disk, call, saver, ever_ok, exit, conn, s3_client, db,
                   buckets, batch_count, reading, prediction, minio_success,
                   db_success, faults, outcomes>>
    /\ UNCHANGED <<probed, snapshots>>
    /\ UNCHANGED db_connected

\* run_pipeline: update_pipeline_stats and print_status_dashboard
M_update_pipeline_stats ==
    /\ pc = "update_pipeline_stats"
    /\ \E failAt \in 0..2 :
         /\ MayFail(failAt, 0)
         /\ failAt # 0 => (conn = "open" /\ db.status # "inerror")
         /\ db' = update_pipeline_stats(conn, db, stats, failAt)
    /\ pc' = "sleep"
    /\ UNCHANGED <<detector, disk, call, saver, ever_ok, exit, conn, s3_client,
                   buckets, stats, batch_count, idx, reading, prediction,
                   minio_success, db_success, log, faults, outcomes>>
    /\ snapshots' = snapshots \cup {stats}
    /\ UNCHANGED probed
    /\ UNCHANGED db_connected

\* run_pipeline: time.sleep(15) returns
M_sleep ==
    /\ pc = "sleep"
    /\ pc' = "loop"
    /\ UNCHANGED <<detector, disk, call, saver, ever_ok, exit, conn, s3_client, db,
                   buckets, stats, batch_count, idx, reading, prediction,
                   minio_success, db_success, log, faults, outcomes>>
    /\ UNCHANGED <<probed, snapshots>>
    /\ UNCHANGED db_connected

LoopPcs == {"loop", "generate", "save_to_minio", "save_to_database", "count",
            "update_pipeline_stats", "sleep"}

\* a finally clause that leaves the connection as it is
shutdown_leaves_open(c, d) == [conn |-> c, db |-> d]

\* run_pipeline's except clauses and finally: the connection is closed
shutdown(c, d) == [conn |-> IF c = "open" THEN "closed" ELSE c,
                   db   |-> IF c = "open" THEN db_close(d) ELSE d]

\* KeyboardInterrupt between two statements of the loop, handled by
\* except KeyboardInterrupt and finally
M_interrupt ==
    /\ pc \in LoopPcs
    /\ exit' = "interrupt"
    /\ conn' = shutdown(conn, db).conn
    /\ db' = shutdown(conn, db).db
    /\ pc' = "done"
    /\ UNCHANGED <<detector, disk, call, saver, ever_ok, s3_client, buckets,
                   stats, batch_count, idx, reading, prediction, minio_success,
                   db_success, log, faults, outcomes>>
    /\ UNCHANGED <<probed, snapshots>>
    /\ UNCHANGED db_connected

\* run_pipeline: the except clause and finally, after an interrupt inside a
\* sink write or an error that reached the loop
M_shutdown ==
    /\ pc \in {"interrupted", "crashed"}
    /\ conn' = shutdown(conn, db).conn
    /\ db' = shutdown(conn, db).db
    /\ pc' = "done"
    /\ UNCHANGED <<detector, disk, call, saver, ever_ok, exit, s3_client, buckets,
                   stats, batch_count, idx, reading, prediction, minio_success,
                   db_success, log, faults, outcomes>>
    /\ UNCHANGED <<probed, snapshots>>
    /\ UNCHANGED db_connected

Next ==
    \/ M_load_model
    \/ M_setup_database
    \/ M_setup_minio
    \/ M_begin_batch
    \/ M_generate
    \/ M_save_to_minio
    \/ M_save_to_database
    \/ M_count
    \/ M_update_pipeline_stats
    \/ M_sleep
    \/ M_interrupt
    \/ M_shutdown

Spec == Init /\ [][Next]_vars

----------------------------------------------------------------------------
(* GrafanaOptimizedPipeline: metric and event inserts share the sink's
   connection and commit on it *)

\* an insert followed by conn.commit(), inside try/except Exception
insert_and_commit(c, d, table, row, fails) ==
    IF c = "None" THEN d
    ELSE LET e1 == db_execute(c, d, table, row, fails)
             e2 == db_commit(c, e1.db, FALSE)
         IN  IF e1.raised THEN e1.db ELSE e2.db

\* GrafanaOptimizedPipeline.log_metric: the database afterwards
log_metric(c, d, metric_name, fails) ==
    insert_and_commit(c, d, "pipeline_metrics", metric_name, fails)

\* GrafanaOptimizedPipeline.log_system_event: the database afterwards
log_system_event(c, d, event_type, fails) ==
    insert_and_commit(c, d, "system_events", event_type, fails)

\* GrafanaOptimizedPipeline.save_to_minio: [buckets, db, ret, flow, kind]
g_save_to_minio(s3, c, d, b, rd, pred, failAt, intAt) ==
    LET failed(bb) ==
            [buckets |-> bb,
             db |-> log_system_event(c, log_metric(c, d, "minio_upload_failed", FALSE),
                                     "minio_upload", FALSE),
             ret |-> FALSE, flow |-> "return", kind |-> "failed"]
        broken(bb) == [buckets |-> bb, db |-> d, ret |-> FALSE,
                       flow |-> "interrupt", kind |-> "interrupted"]
        b1 == [b EXCEPT !.bronze = @ \cup {Row(rd, pred)}]
        b2 == [b1 EXCEPT ![tier_for(pred)] = @ \cup {Row(rd, pred)}]
    IN  IF s3 = 0
        THEN [buckets |-> b, db |-> log_metric(c, d, "minio_upload_failed", FALSE),
              ret |-> FALSE, flow |-> "return", kind |-> "skipped"]
        ELSE IF failAt = 1 THEN failed(b)
        ELSE IF intAt = 1 THEN broken(b1)
        ELSE IF failAt = 2 THEN failed(b1)
        ELSE IF intAt = 2 THEN broken(b2)
        ELSE [buckets |-> b2,
              db |-> log_metric(c, log_metric(c, d, "minio_upload_success", FALSE),
                                "minio_upload_time_ms", FALSE),
              ret |-> TRUE, flow |-> "return", kind |-> "ok"]

\* GrafanaOptimizedPipeline.save_to_database: [db, ret, flow, kind]
g_save_to_database(c, d, rd, pred, failAt, intAt) ==
    IF c = "None"
    THEN [db |-> d, ret |-> FALSE, flow |-> "return", kind |-> "skipped"]
    ELSE LET w == db_write(c, d, rd, pred, failAt, intAt) IN
         CASE w.flow = "done" ->
                [db |-> log_metric(c, log_metric(c, w.db, "db_save_success", FALSE),
                                   "db_save_time_ms", FALSE),
                 ret |-> TRUE, flow |-> "return", kind |-> "ok"]
           [] w.flow = "raise" ->
                [db |-> log_metric(c, w.db, "db_save_failed", FALSE),
                 ret |-> FALSE, flow |-> "return", kind |-> "failed"]
           [] w.flow = "interrupt" ->
                [db |-> w.db, ret |-> FALSE, flow |-> "interrupt",
                 kind |-> abandoned(intAt)]

\* load_model and train_model of a constructor that finds `file` at the model
\* path, when the save after a training succeeds: [d, file]
constructed(file) ==
    LET l == load_model(NewDetector, file)
        t == train(l.d, TrainingData)
    IN  IF l.raised
        THEN [d |-> t.d, file |-> save_model(t.d, file, "ok").file]
        ELSE [d |-> l.d, file |-> file]

\* the candidate endpoints of GrafanaOptimizedPipeline.setup_minio: the first
\* two of the list
NumGrafanaEndpoints == 2

\* the pipeline after GrafanaOptimizedPipeline.__init__
GrafanaInit ==
    /\ \E file \in StartupFiles :
          /\ detector = constructed(file).d
          /\ disk = constructed(file).file
    /\ call = NoCall
    /\ saver = NoSaver
    /\ ever_ok = TRUE
    /\ pc = "g_loop"
    /\ exit = "none"
    /\ conn \in {"None", "open"}
    /\ \E up \in SUBSET {endpoints[i] : i \in 1..NumGrafanaEndpoints} :
          /\ s3_client = setup_minio(NumGrafanaEndpoints, up).client
          /\ probed = setup_minio(NumGrafanaEndpoints, up).probed
    /\ db = EmptyDb
    /\ buckets = EmptyBuckets
    /\ stats = ZeroStats
    /\ batch_count = 0
    /\ idx = 0
    /\ reading = NoReading
    /\ prediction = 0
    /\ minio_success = FALSE
    /\ db_success = FALSE
    /\ log = <<>>
    /\ faults = 0
    /\ outcomes = <<>>
    /\ snapshots = {}
    /\ db_connected = "unassigned"

\* run_pipeline: the head of while True
G_begin_batch ==
    /\ pc = "g_loop"
    /\ Len(outcomes) < MaxReadings
    /\ batch_count' = batch_count + 1
    /\ idx' = 1
    /\ pc' = "g_generate"
    /\ UNCHANGED <<detector, disk, call, saver, ever_ok, exit, conn, s3_client, db,
                   buckets, stats, reading, prediction, minio_success, db_success,
                   log, faults, outcomes>>
    /\ UNCHANGED <<probed, snapshots>>
    /\ UNCHANGED db_connected

\* run_pipeline: generate_sensor_reading and detector.predict([reading])[0]
G_generate ==
    /\ pc = "g_generate"
    /\ Len(outcomes) < MaxReadings
    /\ \E m \in Generated :
         LET rd == [id |-> <<batch_count, sensors[idx]>>,
                    temperature |-> m.temperature, humidity |-> m.humidity]
             p  == predict(detector, <<rd>>)
         IN  /\ reading' = rd
             /\ IF p.raised
                THEN /\ pc' = "g_crashed"
                     /\ exit' = "predict_error"
                     /\ UNCHANGED <<prediction, outcomes>>
                ELSE /\ pc' = "g_save_to_minio"
                     /\ prediction' = p.value[1]
                     /\ outcomes' = Append(outcomes, Pending(rd.id, p.value[1]))
                     /\ UNCHANGED exit
    /\ UNCHANGED <<detector, disk, call, saver, ever_ok, conn, s3_client, db, buckets,
                   stats, batch_count, idx, minio_success, db_success, log, faults>>
    /\ UNCHANGED <<probed, snapshots>>
    /\ UNCHANGED db_connected

\* where the Grafana loop goes when a sink write leaves with `flow`
g_after_sink(flow, next) ==
    CASE flow = "return"    -> next
      [] flow = "interrupt" -> "g_interrupted"
      [] flow = "raise"     -> "g_crashed"

\* run_pipeline: minio_success = self.save_to_minio(reading, prediction)
G_save_to_minio ==
    /\ pc = "g_save_to_minio"
    /\ \E failAt \in 0..2, intAt \in 0..2 :
         /\ MayFail(failAt, intAt)
         /\ failAt # 0 => (s3_client # 0 /\ faults < MaxFaults)
         /\ LET r == g_save_to_minio(s3_client, conn, db, buckets, reading, prediction,
                                     failAt, intAt)
            IN  /\ buckets' = r.buckets
                /\ db' = r.db
                /\ minio_success' = r.ret
                /\ outcomes' = SetLast(outcomes, "minio", r.kind)
                /\ faults' = IF failAt # 0 THEN faults + 1 ELSE faults
                /\ pc' = g_after_sink(r.flow, "g_save_to_database")
                /\ exit' = exit_after(r.flow, exit)
    /\ UNCHANGED <<detector, disk, call, saver, ever_ok, conn, s3_client, stats,
                   batch_count, idx, reading, prediction, db_success, log>>
    /\ UNCHANGED <<probed, snapshots>>
    /\ UNCHANGED db_connected

\* run_pipeline: db_success = self.save_to_database(reading, prediction)
G_save_to_database ==
    /\ pc = "g_save_to_database"
    /\ \E failAt \in 0..3, intAt \in 0..3 :
         /\ MayFail(failAt, intAt)
         /\ failAt # 0 => (conn = "open" /\ db.status # "inerror")
         /\ failAt = 2 => prediction = -1
         /\ LET r == g_save_to_database(conn, db, reading, prediction, failAt, intAt)
            IN  /\ db' = r.db
                /\ db_success' = r.ret
                /\ outcomes' = SetLast(outcomes, "database", r.kind)
                /\ pc' = g_after_sink(r.flow, "g_metrics")
                /\ exit' = exit_after(r.flow, exit)
    /\ UNCHANGED <<detector, disk, call, saver, ever_ok, conn, s3_client, buckets,
                   stats, batch_count, idx, reading, prediction, minio_success, log,
                   faults>>
    /\ UNCHANGED <<probed, snapshots>>
    /\ UNCHANGED db_connected

\* run_pipeline: the metrics logged for one reading
reading_metrics(c, d, pred, fails) ==
    LET d1 == log_metric(c, d, "temperature", fails)
        d2 == log_metric(c, d1, "humidity", FALSE)
        d3 == log_metric(c, d2, "ml_inference_time_ms", FALSE)
    IN  log_metric(c, d3, IF pred = -1 THEN "anomaly_detected" ELSE "normal_reading", FALSE)

\* run_pipeline: total_readings, total_anomalies and the per-reading metrics
G_metrics ==
    /\ pc = "g_metrics"
    /\ \E fails \in BOOLEAN :
         /\ fails => (conn = "open" /\ db.status # "inerror")
         /\ db' = reading_metrics(conn, db, prediction, fails)
    /\ stats' = count_reading(stats, prediction, minio_success, db_success)
    /\ log' = Append(log, [id |-> reading.id, ml_prediction |-> prediction])
    /\ IF idx < Len(sensors)
       THEN /\ idx' = idx + 1
            /\ pc' = "g_generate"
       ELSE /\ idx' = idx
            /\ pc' = "g_batch_metrics"
    /\ UNCHANGED <<detector, disk, call, saver, ever_ok, exit, conn, s3_client,
                   buckets, batch_count, reading, prediction, minio_success,
                   db_success, faults, outcomes>>
    /\ UNCHANGED <<probed, snapshots>>
    /\ UNCHANGED db_connected

\* run_pipeline: the metrics logged for one batch
batch_metrics(c, d) ==
    LET d1 == log_metric(c, d, "batch_processing_time_ms", FALSE)
        d2 == log_metric(c, d1, "batch_size", FALSE)
        d3 == log_metric(c, d2, "total_readings", FALSE)
        d4 == log_metric(c, d3, "total_anomalies", FALSE)
    IN  log_metric(c, d4, "anomaly_rate_percent", FALSE)

G_batch_metrics ==
    /\ pc = "g_batch_metrics"
    /\ db' = batch_metrics(conn, db)
    /\ pc' = "g_sleep"
    /\ UNCHANGED <<detector, disk, call, saver, ever_ok, exit, conn, s3_client,
                   buckets, stats, batch_count, idx, reading, prediction,
                   minio_success, db_success, log, faults, outcomes>>
    /\ UNCHANGED <<probed, snapshots>>
    /\ UNCHANGED db_connected

\* run_pipeline: time.sleep(10) returns
G_sleep ==
    /\ pc = "g_sleep"
    /\ pc' = "g_loop"
    /\ UNCHANGED <<detector, disk, call, saver, ever_ok, exit, conn, s3_client, db,
                   buckets, stats, batch_count, idx, reading, prediction,
                   minio_success, db_success, log, faults, outcomes>>
    /\ UNCHANGED <<probed, snapshots>>
    /\ UNCHANGED db_connected

GrafanaLoopPcs == {"g_loop", "g_generate", "g_save_to_minio", "g_save_to_database",
                   "g_metrics", "g_batch_metrics", "g_sleep"}

\* run_pipeline's except clause, which logs a system event, and finally
g_shutdown(c, d, event_type) == shutdown(c, log_system_event(c, d, event_type, FALSE))

\* KeyboardInterrupt between two statements of the loop
G_interrupt ==
    /\ pc \in GrafanaLoopPcs
    /\ exit' = "interrupt"
    /\ conn' = g_shutdown(conn, db, "pipeline_shutdown").conn
    /\ db' = g_shutdown(conn, db, "pipeline_shutdown").db
    /\ pc' = "done"
    /\ UNCHANGED <<detector, disk, call, saver, ever_ok, s3_client, buckets,
                   stats, batch_count, idx, reading, prediction, minio_success,
                   db_success, log, faults, outcomes>>
    /\ UNCHANGED <<probed, snapshots>>
    /\ UNCHANGED db_connected

\* run_pipeline: the except clause and finally, after an interrupt inside a
\* sink write or an error that reached the loop
G_shutdown ==
    /\ pc \in {"g_interrupted", "g_crashed"}
    /\ LET event_type == IF pc = "g_interrupted" THEN "pipeline_shutdown"
                         ELSE "pipeline_crash"
       IN  /\ conn' = g_shutdown(conn, db, event_type).conn
           /\ db' = g_shutdown(conn, db, event_type).db
    /\ pc' = "done"
    /\ UNCHANGED <<detector, disk, call, saver, ever_ok, exit, s3_client, buckets,
                   stats, batch_count, idx, reading, prediction, minio_success,
                   db_success, log, faults, outcomes>>
    /\ UNCHANGED <<probed, snapshots>>
    /\ UNCHANGED db_connected

GrafanaNext ==
    \/ G_begin_batch
    \/ G_generate
    \/ G_save_to_minio
    \/ G_save_to_database
    \/ G_metrics
    \/ G_batch_metrics
    \/ G_sleep
    \/ G_interrupt
    \/ G_shutdown

SpecGrafana == GrafanaInit /\ [][GrafanaNext]_vars

----------------------------------------------------------------------------
(* SimplifiedIoTPipeline: the loop inserts into sensor_readings inline and
   commits once per batch; only KeyboardInterrupt is caught *)

\* the pipeline after SimplifiedIoTPipeline.__init__, whose setup_database
\* connects or ends the process
SimplifiedInit ==
    /\ \E file \in StartupFiles :
          /\ detector = constructed(file).d
          /\ disk = constructed(file).file
    /\ call = NoCall
    /\ saver = NoSaver
    /\ ever_ok = TRUE
    /\ pc = "s_loop"
    /\ exit = "none"
    /\ conn = "open"
    /\ s3_client = 0
    /\ db = EmptyDb
    /\ buckets = EmptyBuckets
    /\ stats = ZeroStats
    /\ batch_count = 0
    /\ idx = 0
    /\ reading = NoReading
    /\ prediction = 0
    /\ minio_success = FALSE
    /\ db_success = FALSE
    /\ log = <<>>
    /\ faults = 0
    /\ outcomes = <<>>
    /\ snapshots = {}
    /\ db_connected = "unassigned"
    /\ probed = <<>>

\* run_simplified_pipeline: the head of while True
S_begin_batch ==
    /\ pc = "s_loop"
    /\ Len(outcomes) < MaxReadings
    /\ batch_count' = batch_count + 1
    /\ idx' = 1
    /\ pc' = "s_generate"
    /\ UNCHANGED <<detector, disk, call, saver, ever_ok, exit, conn, s3_client, db,
                   buckets, stats, reading, prediction, minio_success, db_success,
                   log, faults, outcomes>>
    /\ UNCHANGED <<probed, snapshots>>
    /\ UNCHANGED db_connected

\* run_simplified_pipeline: the reading and detector.predict([reading])[0];
\* an error of predict leaves the loop, no except clause takes it
S_generate ==
    /\ pc = "s_generate"
    /\ Len(outcomes) < MaxReadings
    /\ \E m \in Generated :
         LET rd == [id |-> <<batch_count, sensors[idx]>>,
                    temperature |-> m.temperature, humidity |-> m.humidity]
             p  == predict(detector, <<rd>>)
         IN  /\ reading' = rd
             /\ IF p.raised
                THEN /\ pc' = "s_raised"
                     /\ exit' = "predict_error"
                     /\ UNCHANGED <<prediction, outcomes>>
                ELSE /\ pc' = "s_insert"
                     /\ prediction' = p.value[1]
                     /\ outcomes' = Append(outcomes, Pending(rd.id, p.value[1]))
                     /\ UNCHANGED exit
    /\ UNCHANGED <<detector, disk, call, saver, ever_ok, conn, s3_client, db, buckets,
                   stats, batch_count, idx, minio_success, db_success, log, faults>>
    /\ UNCHANGED <<probed, snapshots>>
    /\ UNCHANGED db_connected

\* run_simplified_pipeline: cursor.execute of the INSERT, in no try block of
\* its own
S_insert ==
    /\ pc = "s_insert"
    /\ \E fails \in BOOLEAN :
         LET e == db_execute(conn, db, "sensor_readings", Row(reading, prediction), fails)
         IN  /\ db' = e.db
             /\ db_success' = ~e.raised
             /\ outcomes' = SetLast(outcomes, "database",
                                    IF e.raised THEN "failed" ELSE "ok")
             /\ IF e.raised
                THEN /\ pc' = "s_raised"
                     /\ exit' = "sink_error"
                     /\ UNCHANGED <<idx, log>>
                ELSE /\ log' = Append(log, [id |-> reading.id,
                                            ml_prediction |-> prediction])
                     /\ idx' = IF idx < Len(sensors) THEN idx + 1 ELSE idx
                     /\ pc' = IF idx < Len(sensors) THEN "s_generate" ELSE "s_commit"
                     /\ UNCHANGED exit
    /\ UNCHANGED <<detector, disk, call, saver, ever_ok, conn, s3_client, buckets,
                   stats, batch_count, reading, prediction, minio_success, faults>>
    /\ UNCHANGED <<probed, snapshots>>
    /\ UNCHANGED db_connected

\* run_simplified_pipeline: self.conn.commit() at the end of the batch
S_commit ==
    /\ pc = "s_commit"
    /\ \E fails \in BOOLEAN :
         LET e == db_commit(conn, db, fails)
         IN  /\ db' = e.db
             /\ pc' = IF e.raised THEN "s_raised" ELSE "s_sleep"
             /\ exit' = IF e.raised THEN "sink_error" ELSE exit
    /\ UNCHANGED <<detector, disk, call, saver, ever_ok, conn, s3_client, buckets,
                   stats, batch_count, idx, reading, prediction, minio_success,
                   db_success, log, faults, outcomes>>
    /\ UNCHANGED <<probed, snapshots>>
    /\ UNCHANGED db_connected

\* run_simplified_pipeline: time.sleep(8) returns
S_sleep ==
    /\ pc = "s_sleep"
    /\ pc' = "s_loop"
    /\ UNCHANGED <<detector, disk, call, saver, ever_ok, exit, conn, s3_client, db,
                   buckets, stats, batch_count, idx, reading, prediction,
                   minio_success, db_success, log, faults, outcomes>>
    /\ UNCHANGED <<probed, snapshots>>
    /\ UNCHANGED db_connected

\* KeyboardInterrupt in the loop: except KeyboardInterrupt and finally
S_interrupt ==
    /\ pc \in {"s_loop", "s_generate", "s_insert", "s_commit", "s_sleep"}
    /\ exit' = "interrupt"
    /\ conn' = shutdown(conn, db).conn
    /\ db' = shutdown(conn, db).db
    /\ pc' = "done"
    /\ UNCHANGED <<detector, disk, call, saver, ever_ok, s3_client, buckets,
                   stats, batch_count, idx, reading, prediction, minio_success,
                   db_success, log, faults, outcomes>>
    /\ UNCHANGED <<probed, snapshots>>
    /\ UNCHANGED db_connected

\* an error that left the loop: finally closes the connection and the error
\* ends the process
S_finally ==
    /\ pc = "s_raised"
    /\ conn' = shutdown(conn, db).conn
    /\ db' = shutdown(conn, db).db
    /\ pc' = "dead"
    /\ UNCHANGED <<detector, disk, call, saver, ever_ok, exit, s3_client, buckets,
                   stats, batch_count, idx, reading, prediction, minio_success,
                   db_success, log, faults, outcomes>>
    /\ UNCHANGED <<probed, snapshots>>
    /\ UNCHANGED db_connected

SimplifiedNext ==
    \/ S_begin_batch
    \/ S_generate
    \/ S_insert
    \/ S_commit
    \/ S_sleep
    \/ S_interrupt
    \/ S_finally

SpecSimplified == SimplifiedInit /\ [][SimplifiedNext]_vars

----------------------------------------------------------------------------
(* FinalWorkingPipeline: the relational sink first, then files under
   minio_data/bronze, silver and gold; print_status every third batch and at
   the interrupt *)

FinalZeroStats == [total_readings |-> 0, anomalies_detected |-> 0, files_created |-> 0]

\* FinalWorkingPipeline.save_to_database: [db, ret, flow, kind]
f_save_to_database(c, d, rd, pred, failAt, intAt) ==
    LET w == db_write(c, d, rd, pred, failAt, intAt) IN
    CASE w.flow = "done" ->
           [db |-> w.db, ret |-> TRUE, flow |-> "return", kind |-> "ok"]
      [] w.flow = "raise" ->
           [db |-> w.db, ret |-> FALSE, flow |-> "return", kind |-> "failed"]
      [] w.flow = "interrupt" ->
           [db |-> w.db, ret |-> FALSE, flow |-> "interrupt", kind |-> abandoned(intAt)]

\* FinalWorkingPipeline.save_to_files: [buckets, stats, ret, flow, kind].
\* failAt names the file whose writing raises, intAt the statement after
\* which a KeyboardInterrupt arrives: the bronze file, the silver or gold
\* file, the increment of files_created.
save_to_files(b, st, rd, pred, failAt, intAt) ==
    LET failed(bb) == [buckets |-> bb, stats |-> st, ret |-> FALSE,
                       flow |-> "return", kind |-> "failed"]
        broken(bb, ss, k) == [buckets |-> bb, stats |-> ss, ret |-> FALSE,
                              flow |-> "interrupt", kind |-> k]
        b1 == [b EXCEPT !.bronze = @ \cup {Row(rd, pred)}]
        b2 == [b1 EXCEPT ![tier_for(pred)] = @ \cup {Row(rd, pred)}]
        s3 == [st EXCEPT !.files_created = @ + 1]
    IN  IF failAt = 1 THEN failed(b)
        ELSE IF intAt = 1 THEN broken(b1, st, "interrupted")
        ELSE IF failAt = 2 THEN failed(b1)
        ELSE IF intAt = 2 THEN broken(b2, st, "interrupted")
        ELSE IF intAt = 3 THEN broken(b2, s3, "unreported")
        ELSE [buckets |-> b2, stats |-> s3, ret |-> TRUE, flow |-> "return",
              kind |-> "ok"]

\* the pipeline after FinalWorkingPipeline.__init__, whose setup_database
\* connects or exits
FinalInit ==
    /\ \E file \in StartupFiles :
          /\ detector = constructed(file).d
          /\ disk = constructed(file).file
    /\ call = NoCall
    /\ saver = NoSaver
    /\ ever_ok = TRUE
    /\ pc = "f_loop"
    /\ exit = "none"
    /\ conn = "open"
    /\ s3_client = 0
    /\ db = EmptyDb
    /\ buckets = EmptyBuckets
    /\ stats = FinalZeroStats
    /\ batch_count = 0
    /\ idx = 0
    /\ reading = NoReading
    /\ prediction = 0
    /\ minio_success = FALSE
    /\ db_success = FALSE
    /\ log = <<>>
    /\ faults = 0
    /\ outcomes = <<>>
    /\ probed = <<>>
    /\ snapshots = {}
    /\ db_connected = "unassigned"

\* run_pipeline: the head of while True
F_begin_batch ==
    /\ pc = "f_loop"
    /\ Len(outcomes) < MaxReadings
    /\ batch_count' = batch_count + 1
    /\ idx' = 1
    /\ pc' = "f_generate"
    /\ UNCHANGED <<detector, disk, call, saver, ever_ok, exit, conn, s3_client, db,
                   buckets, stats, reading, prediction, minio_success, db_success,
                   log, faults, outcomes, probed, snapshots>>
    /\ UNCHANGED db_connected

\* run_pipeline: generate_sensor_reading and detector.predict([reading])[0];
\* no except clause takes an error of predict
F_generate ==
    /\ pc = "f_generate"
    /\ Len(outcomes) < MaxReadings
    /\ \E m \in Generated :
         LET rd == [id |-> <<batch_count, sensors[idx]>>,
                    temperature |-> m.temperature, humidity |-> m.humidity]
             p  == predict(detector, <<rd>>)
         IN  /\ reading' = rd
             /\ IF p.raised
                THEN /\ pc' = "f_raised"
                     /\ exit' = "predict_error"
                     /\ UNCHANGED <<prediction, outcomes>>
                ELSE /\ pc' = "f_save_to_database"
                     /\ prediction' = p.value[1]
                     /\ outcomes' = Append(outcomes, Pending(rd.id, p.value[1]))
                     /\ UNCHANGED exit
    /\ UNCHANGED <<detector, disk, call, saver, ever_ok, conn, s3_client, db, buckets,
                   stats, batch_count, idx, minio_success, db_success, log, faults,
                   probed, snapshots>>
    /\ UNCHANGED db_connected

\* where the loop goes when a sink write leaves with `flow`
f_after_sink(flow, next) ==
    CASE flow = "return"    -> next
      [] flow = "interrupt" -> "f_interrupted"

\* run_pipeline: self.save_to_database(reading, prediction)
F_save_to_database ==
    /\ pc = "f_save_to_database"
    /\ \E failAt \in 0..3, intAt \in 0..3 :
         /\ MayFail(failAt, intAt)
         /\ failAt # 0 => db.status # "inerror"
         /\ failAt = 2 => prediction = -1
         /\ LET r == f_save_to_database(conn, db, reading, prediction, failAt, intAt)
            IN  /\ db' = r.db
                /\ db_success' = r.ret
                /\ outcomes' = SetLast(outcomes, "database", r.kind)
                /\ pc' = f_after_sink(r.flow, "f_save_to_files")
                /\ exit' = exit_after(r.flow, exit)
    /\ UNCHANGED <<detector, disk, call, saver, ever_ok, conn, s3_client, buckets,
                   stats, batch_count, idx, reading, prediction, minio_success, log,
                   faults, probed, snapshots>>
    /\ UNCHANGED db_connected

\* run_pipeline: self.save_to_files(reading, prediction)
F_save_to_files ==
    /\ pc = "f_save_to_files"
    /\ \E failAt \in 0..2, intAt \in 0..3 :
         /\ MayFail(failAt, intAt)
         /\ failAt # 0 => faults < MaxFaults
         /\ LET r == save_to_files(buckets, stats, reading, prediction, failAt, intAt)
            IN  /\ buckets' = r.buckets
                /\ stats' = r.stats
                /\ minio_success' = r.ret
                /\ outcomes' = SetLast(outcomes, "minio", r.kind)
                /\ faults' = IF failAt # 0 THEN faults + 1 ELSE faults
                /\ pc' = f_after_sink(r.flow, "f_count")
                /\ exit' = exit_after(r.flow, exit)
    /\ UNCHANGED <<detector, disk, call, saver, ever_ok, conn, s3_client, db,
                   batch_count, idx, reading, prediction, db_success, log, probed,
                   snapshots>>
    /\ UNCHANGED db_connected

\* run_pipeline: total_readings, anomalies_detected and the line of the
\* reading, then the next sensor
F_count ==
    /\ pc = "f_count"
    /\ stats' = count_reading(stats, prediction, minio_success, db_success)
    /\ log' = Append(log, [id |-> reading.id, ml_prediction |-> prediction])
    /\ IF idx < Len(sensors)
       THEN /\ idx' = idx + 1
            /\ pc' = "f_generate"
       ELSE /\ idx' = idx
            /\ pc' = "f_status"
    /\ UNCHANGED <<detector, disk, call, saver, ever_ok, exit, conn, s3_client, db,
                   buckets, batch_count, reading, prediction, minio_success,
                   db_success, faults, outcomes, probed, snapshots>>
    /\ UNCHANGED db_connected

\* print_status: the counters it prints
print_status(st, printed) == printed \cup {st}

\* run_pipeline: if batch_count % 3 == 0: self.print_status()
F_status ==
    /\ pc = "f_status"
    /\ snapshots' = IF batch_count % 3 = 0 THEN print_status(stats, snapshots)
                    ELSE snapshots
    /\ pc' = "f_sleep"
    /\ UNCHANGED <<detector, disk, call, saver, ever_ok, exit, conn, s3_client, db,
                   buckets, stats, batch_count, idx, reading, prediction,
                   minio_success, db_success, log, faults, outcomes, probed>>
    /\ UNCHANGED db_connected

\* run_pipeline: time.sleep(12)
F_sleep ==
    /\ pc = "f_sleep"
    /\ pc' = "f_loop"
    /\ UNCHANGED <<detector, disk, call, saver, ever_ok, exit, conn, s3_client, db,
                   buckets, stats, batch_count, idx, reading, prediction,
                   minio_success, db_success, log, faults, outcomes, probed,
                   snapshots>>
    /\ UNCHANGED db_connected

FinalLoopPcs == {"f_loop", "f_generate", "f_save_to_database", "f_save_to_files",
                 "f_count", "f_status", "f_sleep"}

\* KeyboardInterrupt between two statements of the loop: except
\* KeyboardInterrupt prints the status, finally closes the connection
F_interrupt ==
    /\ pc \in FinalLoopPcs
    /\ exit' = "interrupt"
    /\ snapshots' = print_status(stats, snapshots)
    /\ conn' = shutdown(conn, db).conn
    /\ db' = shutdown(conn, db).db
    /\ pc' = "done"
    /\ UNCHANGED <<detector, disk, call, saver, ever_ok, s3_client, buckets,
                   stats, batch_count, idx, reading, prediction, minio_success,
                   db_success, log, faults, outcomes, probed>>
    /\ UNCHANGED db_connected

\* run_pipeline: after an interrupt inside a sink write the except clause and
\* finally; after an error of predict, which no clause takes, finally alone
F_shutdown ==
    /\ pc \in {"f_interrupted", "f_raised"}
    /\ snapshots' = IF pc = "f_interrupted" THEN print_status(stats, snapshots)
                    ELSE snapshots
    /\ conn' = shutdown(conn, db).conn
    /\ db' = shutdown(conn, db).db
    /\ pc' = IF pc = "f_interrupted" THEN "done" ELSE "dead"
    /\ UNCHANGED <<detector, disk, call, saver, ever_ok, exit, s3_client, buckets,
                   stats, batch_count, idx, reading, prediction, minio_success,
                   db_success, log, faults, outcomes, probed>>
    /\ UNCHANGED db_connected

FinalNext ==
    \/ F_begin_batch
    \/ F_generate
    \/ F_save_to_database
    \/ F_save_to_files
    \/ F_count
    \/ F_status
    \/ F_sleep
    \/ F_interrupt
    \/ F_shutdown

SpecFinal == FinalInit /\ [][FinalNext]_vars

----------------------------------------------------------------------------
(* SimpleWorkingPipeline: the relational sink, then files under data/bronze,
   data/silver and data/gold.  A tier of buckets holds files [name, row]; the
   bronze file is named by the minute of the write alone, the silver or gold
   file by the sensor and the second. *)

SimpleZeroStats == [total_readings |-> 0, anomalies_detected |-> 0]

\* open(name, 'w') and json.dump: the file `name` holds `row` and nothing else
write_file(files, name, row) ==
    {f \in files : f.name # name} \cup {[name |-> name, row |-> row]}

\* datetime.now().strftime('%Y%m%d_%H%M') of the latest bronze file
last_minute(b) ==
    IF b.bronze = {} THEN 0
    ELSE CHOOSE m \in {f.name : f \in b.bronze} :
            \A f \in b.bronze : f.name <= m

\* SimpleWorkingPipeline.save_to_minio_manually at minute `minute`:
\* [buckets, ret, flow, kind]
save_to_minio_manually(b, rd, pred, minute, failAt, intAt) ==
    LET failed(bb) == [buckets |-> bb, ret |-> FALSE, flow |-> "return",
                       kind |-> "failed"]
        broken(bb) == [buckets |-> bb, ret |-> FALSE, flow |-> "interrupt",
                       kind |-> "interrupted"]
        b1 == [b EXCEPT !.bronze = write_file(@, minute, Row(rd, pred))]
        b2 == [b1 EXCEPT ![tier_for(pred)] = write_file(@, rd.id, Row(rd, pred))]
    IN  IF failAt = 1 THEN failed(b)
        ELSE IF intAt = 1 THEN broken(b1)
        ELSE IF failAt = 2 THEN failed(b1)
        ELSE IF intAt = 2 THEN broken(b2)
        ELSE [buckets |-> b2, ret |-> TRUE, flow |-> "return", kind |-> "ok"]

\* the pipeline after SimpleWorkingPipeline.__init__, whose setup_database
\* connects or exits
SimpleWorkingInit ==
    /\ \E file \in StartupFiles :
          /\ detector = constructed(file).d
          /\ disk = constructed(file).file
    /\ call = NoCall
    /\ saver = NoSaver
    /\ ever_ok = TRUE
    /\ pc = "w_loop"
    /\ exit = "none"
    /\ conn = "open"
    /\ s3_client = 0
    /\ db = EmptyDb
    /\ buckets = EmptyBuckets
    /\ stats = SimpleZeroStats
    /\ batch_count = 0
    /\ idx = 0
    /\ reading = NoReading
    /\ prediction = 0
    /\ minio_success = FALSE
    /\ db_success = FALSE
    /\ log = <<>>
    /\ faults = 0
    /\ outcomes = <<>>
    /\ probed = <<>>
    /\ snapshots = {}
    /\ db_connected = "unassigned"

\* run_pipeline: the head of while True
W_begin_batch ==
    /\ pc = "w_loop"
    /\ Len(outcomes) < MaxReadings
    /\ batch_count' = batch_count + 1
    /\ idx' = 1
    /\ pc' = "w_generate"
    /\ UNCHANGED <<detector, disk, call, saver, ever_ok, exit, conn, s3_client, db,
                   buckets, stats, reading, prediction, minio_success, db_success,
                   log, faults, outcomes, probed, snapshots>>
    /\ UNCHANGED db_connected

\* run_pipeline: generate_sensor_reading and detector.predict([reading])[0];
\* no except clause takes an error of predict
W_generate ==
    /\ pc = "w_generate"
    /\ Len(outcomes) < MaxReadings
    /\ \E m \in Generated :
         LET rd == [id |-> <<batch_count, sensors[idx]>>,
                    temperature |-> m.temperature, humidity |-> m.humidity]
             p  == predict(detector, <<rd>>)
         IN  /\ reading' = rd
             /\ IF p.raised
                THEN /\ pc' = "w_raised"
                     /\ exit' = "predict_error"
                     /\ UNCHANGED <<prediction, outcomes>>
                ELSE /\ pc' = "w_save_to_database"
                     /\ prediction' = p.value[1]
                     /\ outcomes' = Append(outcomes, Pending(rd.id, p.value[1]))
                     /\ UNCHANGED exit
    /\ UNCHANGED <<detector, disk, call, saver, ever_ok, conn, s3_client, db, buckets,
                   stats, batch_count, idx, minio_success, db_success, log, faults,
                   probed, snapshots>>
    /\ UNCHANGED db_connected

\* where the loop goes when a sink write leaves with `flow`
w_after_sink(flow, next) ==
    CASE flow = "return"    -> next
      [] flow = "interrupt" -> "w_interrupted"

\* run_pipeline: self.save_to_database(reading, prediction), whose body is
\* that of FinalWorkingPipeline.save_to_database
W_save_to_database ==
    /\ pc = "w_save_to_database"
    /\ \E failAt \in 0..3, intAt \in 0..3 :
         /\ MayFail(failAt, intAt)
         /\ failAt # 0 => db.status # "inerror"
         /\ failAt = 2 => prediction = -1
         /\ LET r == f_save_to_database(conn, db, reading, prediction, failAt, intAt)
            IN  /\ db' = r.db
                /\ db_success' = r.ret
                /\ outcomes' = SetLast(outcomes, "database", r.kind)
                /\ pc' = w_after_sink(r.flow, "w_save_to_minio_manually")
                /\ exit' = exit_after(r.flow, exit)
    /\ UNCHANGED <<detector, disk, call, saver, ever_ok, conn, s3_client, buckets,
                   stats, batch_count, idx, reading, prediction, minio_success, log,
                   faults, probed, snapshots>>
    /\ UNCHANGED db_connected

\* run_pipeline: self.save_to_minio_manually(reading, prediction), in the
\* minute of the latest bronze file or in a later one
W_save_to_minio_manually ==
    /\ pc = "w_save_to_minio_manually"
    /\ \E failAt \in 0..2, intAt \in 0..2,
          minute \in {last_minute(buckets), last_minute(buckets) + 1} :
         /\ MayFail(failAt, intAt)
         /\ failAt # 0 => faults < MaxFaults
         /\ LET r == save_to_minio_manually(buckets, reading, prediction, minute,
                                            failAt, intAt)
            IN  /\ buckets' = r.buckets
                /\ minio_success' = r.ret
                /\ outcomes' = SetLast(outcomes, "minio", r.kind)
                /\ faults' = IF failAt # 0 THEN faults + 1 ELSE faults
                /\ pc' = w_after_sink(r.flow, "w_count")
                /\ exit' = exit_after(r.flow, exit)
    /\ UNCHANGED <<detector, disk, call, saver, ever_ok, conn, s3_client, db, stats,
                   batch_count, idx, reading, prediction, db_success, log, probed,
                   snapshots>>
    /\ UNCHANGED db_connected

\* run_pipeline: total_readings, anomalies_detected and the line of the
\* reading, then the next sensor or, after the last one, print_status
W_count ==
    /\ pc = "w_count"
    /\ stats' = count_reading(stats, prediction, minio_success, db_success)
    /\ log' = Append(log, [id |-> reading.id, ml_prediction |-> prediction])
    /\ IF idx < Len(sensors)
       THEN /\ idx' = idx + 1
            /\ pc' = "w_generate"
            /\ UNCHANGED snapshots
       ELSE /\ idx' = idx
            /\ pc' = "w_sleep"
            /\ snapshots' = print_status(stats', snapshots)
    /\ UNCHANGED <<detector, disk, call, saver, ever_ok, exit, conn, s3_client, db,
                   buckets, batch_count, reading, prediction, minio_success,
                   db_success, faults, outcomes, probed>>
    /\ UNCHANGED db_connected

\* run_pipeline: time.sleep(10)
W_sleep ==
    /\ pc = "w_sleep"
    /\ pc' = "w_loop"
    /\ UNCHANGED <<detector, disk, call, saver, ever_ok, exit, conn, s3_client, db,
                   buckets, stats, batch_count, idx, reading, prediction,
                   minio_success, db_success, log, faults, outcomes, probed,
                   snapshots>>
    /\ UNCHANGED db_connected

\* run_pipeline: except KeyboardInterrupt and finally, for an interrupt
\* between two statements of the loop or inside a sink write; finally alone
\* after an error of predict
W_shutdown ==
    /\ pc \in {"w_loop", "w_generate", "w_save_to_database",
               "w_save_to_minio_manually", "w_count", "w_sleep",
               "w_interrupted", "w_raised"}
    /\ exit' = IF pc = "w_raised" THEN exit ELSE "interrupt"
    /\ conn' = shutdown(conn, db).conn
    /\ db' = shutdown(conn, db).db
    /\ pc' = IF pc = "w_raised" THEN "dead" ELSE "done"
    /\ UNCHANGED <<detector, disk, call, saver, ever_ok, s3_client, buckets,
                   stats, batch_count, idx, reading, prediction, minio_success,
                   db_success, log, faults, outcomes, probed, snapshots>>
    /\ UNCHANGED db_connected

SimpleWorkingNext ==
    \/ W_begin_batch
    \/ W_generate
    \/ W_save_to_database
    \/ W_save_to_minio_manually
    \/ W_count
    \/ W_sleep
    \/ W_shutdown

SpecSimpleWorking == SimpleWorkingInit /\ [][SimpleWorkingNext]_vars

----------------------------------------------------------------------------
(* IoTMLPipeline: the streaming query hands every micro-batch of the
   iot-sensors topic to process_batch *)

\* the pipeline after IoTMLPipeline.__init__: a detector that is neither
\* loaded nor trained, and the schema
StreamingInit ==
    /\ detector = NewDetector
    /\ disk = NoFile
    /\ call = NoCall
    /\ saver = NoSaver
    /\ ever_ok = FALSE
    /\ PipelineIdle("p_main")

\* the records of micro-batch `epoch_id` whose measured values are `data`
micro_batch(epoch_id, data) ==
    [i \in 1..Len(data) |->
        [id |-> <<epoch_id, i>>, temperature |-> data[i].temperature,
         humidity |-> data[i].humidity]]

\* IoTMLPipeline.process_batch: [buckets, predictions, raised].  failAt names
\* the parquet write that raises: the one to silver, the one to gold.
process_batch(d, b, df, failAt) ==
    LET p == predict(d, df)
        rows(v) == { Row(df[i], p.value[i]) : i \in { j \in DOMAIN df : p.value[j] = v } }
        normal_data == rows(0)
        anomaly_data == rows(-1)
        b1 == IF normal_data # {} THEN [b EXCEPT !.silver = @ \cup normal_data] ELSE b
        b2 == IF anomaly_data # {} THEN [b1 EXCEPT !.gold = @ \cup anomaly_data] ELSE b1
    IN  IF Len(df) = 0 THEN [buckets |-> b, predictions |-> <<>>, raised |-> FALSE]
        ELSE IF p.raised THEN [buckets |-> b, predictions |-> <<>>, raised |-> TRUE]
        ELSE IF failAt = 1 /\ normal_data # {}
        THEN [buckets |-> b, predictions |-> p.value, raised |-> TRUE]
        ELSE IF failAt = 2 /\ anomaly_data # {}
        THEN [buckets |-> b1, predictions |-> p.value, raised |-> TRUE]
        ELSE [buckets |-> b2, predictions |-> p.value, raised |-> FALSE]

\* start_streaming: the query is started
P_start_streaming ==
    /\ pc = "p_main"
    /\ pc' = "p_streaming"
    /\ UNCHANGED <<detector, disk, call, saver, ever_ok, exit, conn, s3_client, db,
                   buckets, stats, batch_count, idx, reading, prediction,
                   minio_success, db_success, log, faults, outcomes, probed,
                   snapshots>>
    /\ UNCHANGED db_connected

\* foreachBatch(self.process_batch): one trigger of the query
P_process_batch ==
    /\ pc = "p_streaming"
    /\ batch_count < MaxReadings
    /\ \E data \in SeqsUpTo(Records, MaxLen), failAt \in 0..2 :
         LET df == micro_batch(batch_count, data)
             r  == process_batch(detector, buckets, df, failAt)
         IN  /\ failAt # 0 => faults < MaxFaults
             /\ buckets' = r.buckets
             /\ call' = [op |-> "predict", arg |-> df, raised |-> r.raised,
                         value |-> r.predictions]
             /\ outcomes' = outcomes \o
                   [i \in 1..Len(r.predictions) |->
                       [id |-> df[i].id, ml_prediction |-> r.predictions[i],
                        minio |-> IF r.raised THEN "failed" ELSE "ok",
                        database |-> "skipped"]]
             /\ faults' = IF r.raised THEN faults + 1 ELSE faults
             /\ pc' = IF r.raised THEN "p_failed" ELSE "p_streaming"
             /\ exit' = IF r.raised THEN "sink_error" ELSE exit
    /\ batch_count' = batch_count + 1
    /\ UNCHANGED <<detector, disk, saver, ever_ok, conn, s3_client, db, stats, idx,
                   reading, prediction, minio_success, db_success, log, probed,
                   snapshots>>
    /\ UNCHANGED db_connected

\* query.awaitTermination(): the error of a batch ends the query and the process
P_awaitTermination ==
    /\ pc = "p_failed"
    /\ pc' = "dead"
    /\ UNCHANGED <<detector, disk, call, saver, ever_ok, exit, conn, s3_client, db,
                   buckets, stats, batch_count, idx, reading, prediction,
                   minio_success, db_success, log, faults, outcomes, probed,
                   snapshots>>
    /\ UNCHANGED db_connected

StreamingNext ==
    \/ P_start_streaming
    \/ P_process_batch
    \/ P_awaitTermination

SpecStreaming == StreamingInit /\ [][StreamingNext]_vars

----------------------------------------------------------------------------
(* ResilientPipeline: construction and the entry of run_pipeline *)

\* the tables setup_database creates, in the order of its list
tables ==
    <<"sensor_readings", "anomaly_alerts", "system_events", "pipeline_metrics",
      "pipeline_status">>

ResilientZeroStats ==
    [total_readings |-> 0, anomalies_detected |-> 0, db_saves |-> 0, errors |-> 0]

\* ResilientPipeline.log_system_event: [db, raised].  Reading self.db_connected
\* before the attribute exists raises AttributeError, outside the try block.
r_log_system_event(dbc, c, d, event_type, fails) ==
    IF dbc = "unassigned" THEN [db |-> d, raised |-> TRUE]
    ELSE IF dbc = "False" THEN [db |-> d, raised |-> FALSE]
    ELSE [db |-> insert_and_commit(c, d, "system_events", event_type, fails),
          raised |-> FALSE]

\* the CREATE TABLE statements from the i-th on, up to the one that fails
RECURSIVE create_tables(_, _, _, _)
create_tables(c, d, i, failAt) ==
    IF i > Len(tables) THEN [db |-> d, raised |-> FALSE]
    ELSE LET e == db_execute(c, d, "tables", tables[i], failAt = i + 1)
         IN  IF e.raised THEN e ELSE create_tables(c, e.db, i + 1, failAt)

\* ResilientPipeline.setup_database, called while self.db_connected is `dbc`:
\* [conn, db, ret].  failAt names the call that raises: 1 psycopg2.connect,
\* 2.. the CREATE TABLE statements, then the commit.
r_setup_database(dbc, c, d, failAt) ==
    IF failAt = 1 THEN [conn |-> c, db |-> d, ret |-> FALSE]
    ELSE LET t == create_tables("open", d, 1, failAt)
             m == db_commit("open", t.db, failAt = Len(tables) + 2)
             e == r_log_system_event(dbc, "open", m.db, "database_connection", FALSE)
         IN  IF t.raised THEN [conn |-> "open", db |-> t.db, ret |-> FALSE]
             ELSE IF m.raised THEN [conn |-> "open", db |-> m.db, ret |-> FALSE]
             ELSE IF e.raised THEN [conn |-> "open", db |-> e.db, ret |-> FALSE]
             ELSE [conn |-> "open", db |-> e.db, ret |-> TRUE]

\* ResilientPipeline before its constructor has run; the database may hold
\* tables of an earlier run (CREATE TABLE IF NOT EXISTS)
ResilientInit ==
    /\ detector = NewDetector
    /\ disk \in StartupFiles
    /\ call = NoCall
    /\ saver = NoSaver
    /\ ever_ok = FALSE
    /\ pc = "r_load_model"
    /\ exit = "none"
    /\ conn = "None"
    /\ s3_client = 0
    /\ \E existing \in SUBSET {<<"tables", tables[i]>> : i \in DOMAIN tables} :
          db = [EmptyDb EXCEPT !.others = existing]
    /\ buckets = EmptyBuckets
    /\ stats = ZeroStats
    /\ batch_count = 0
    /\ idx = 0
    /\ reading = NoReading
    /\ prediction = 0
    /\ minio_success = FALSE
    /\ db_success = FALSE
    /\ log = <<>>
    /\ faults = 0
    /\ outcomes = <<>>
    /\ probed = <<>>
    /\ snapshots = {}
    /\ db_connected = "unassigned"

\* ResilientPipeline.load_model and train_model
R_load_model ==
    /\ pc = "r_load_model"
    /\ LET l == load_model(detector, disk) IN
       IF ~l.raised
       THEN /\ detector' = l.d
            /\ pc' = "r_setup_database"
            /\ UNCHANGED <<disk, exit>>
       ELSE \E outcome \in {"ok", "open_fails", "dump_fails"} :
                LET t == train(l.d, TrainingData)
                    w == save_model(t.d, disk, outcome)
                IN  /\ detector' = t.d
                    /\ disk' = w.file
                    /\ pc' = IF w.raised THEN "dead" ELSE "r_setup_database"
                    /\ exit' = IF w.raised THEN "startup" ELSE exit
    /\ ever_ok' = TRUE
    /\ UNCHANGED <<call, saver, conn, s3_client, db, buckets, stats, batch_count,
                   idx, reading, prediction, minio_success, db_success, log, faults,
                   outcomes, probed, snapshots, db_connected>>

\* __init__: self.db_connected = self.setup_database(), then self.stats
R_setup_database ==
    /\ pc = "r_setup_database"
    /\ \E failAt \in 0..(Len(tables) + 2) :
         LET r == r_setup_database(db_connected, conn, db, failAt)
         IN  /\ conn' = r.conn
             /\ db' = r.db
             /\ db_connected' = IF r.ret THEN "True" ELSE "False"
    /\ stats' = ResilientZeroStats
    /\ pc' = "r_main"
    /\ UNCHANGED <<detector, disk, call, saver, ever_ok, exit, s3_client, buckets,
                   batch_count, idx, reading, prediction, minio_success, db_success,
                   log, faults, outcomes, probed, snapshots>>

\* run_pipeline up to the loop: without db_connected it returns
R_run_pipeline ==
    /\ pc = "r_main"
    /\ IF db_connected # "True"
       THEN /\ pc' = "done"
            /\ exit' = "no_database"
       ELSE /\ pc' = "r_loop"
            /\ UNCHANGED exit
    /\ UNCHANGED <<detector, disk, call, saver, ever_ok, conn, s3_client, db, buckets,
                   stats, batch_count, idx, reading, prediction, minio_success,
                   db_success, log, faults, outcomes, probed, snapshots,
                   db_connected>>

ResilientNext ==
    \/ R_load_model
    \/ R_setup_database
    \/ R_run_pipeline

SpecResilient == ResilientInit /\ [][ResilientNext]_vars

----------------------------------------------------------------------------
(* EnhancedPipeline: the relational sink, then files under ../data; the
   counters reading_count and anomaly_count are locals of
   run_realtime_pipeline, kept here in stats *)

\* EnhancedPipeline.save_to_database: [db, ret, flow, kind]
e_save_to_database(c, d, rd, pred, failAt, intAt) ==
    IF c = "None"
    THEN [db |-> d, ret |-> FALSE, flow |-> "return", kind |-> "skipped"]
    ELSE f_save_to_database(c, d, rd, pred, failAt, intAt)

\* EnhancedPipeline.save_to_file: [buckets, flow, kind]
e_save_to_file(b, rd, pred, failAt, intAt) ==
    LET b1 == [b EXCEPT !.bronze = @ \cup {Row(rd, pred)}]
        b2 == [b1 EXCEPT ![tier_for(pred)] = @ \cup {Row(rd, pred)}]
    IN  IF failAt = 1 THEN [buckets |-> b, flow |-> "return", kind |-> "failed"]
        ELSE IF intAt = 1 THEN [buckets |-> b1, flow |-> "interrupt", kind |-> "interrupted"]
        ELSE IF failAt = 2 THEN [buckets |-> b1, flow |-> "return", kind |-> "failed"]
        ELSE IF intAt = 2 THEN [buckets |-> b2, flow |-> "interrupt", kind |-> "interrupted"]
        ELSE [buckets |-> b2, flow |-> "return", kind |-> "ok"]

\* the prints of except KeyboardInterrupt: [raised, rate], the rate a
\* fraction; anomaly_count/reading_count raises ZeroDivisionError at 0
final_stats(st) ==
    IF st.reading_count = 0 THEN [raised |-> TRUE, rate |-> <<0, 1>>]
    ELSE [raised |-> FALSE, rate |-> <<st.anomaly_count * 100, st.reading_count>>]

\* the pipeline after EnhancedPipeline.__init__, whose setup_database leaves
\* self.conn = None on any error
EnhancedInit ==
    /\ \E file \in StartupFiles :
          /\ detector = constructed(file).d
          /\ disk = constructed(file).file
    /\ call = NoCall
    /\ saver = NoSaver
    /\ ever_ok = TRUE
    /\ pc = "e_loop"
    /\ exit = "none"
    /\ conn \in {"None", "open"}
    /\ s3_client = 0
    /\ db = EmptyDb
    /\ buckets = EmptyBuckets
    /\ stats = [reading_count |-> 0, anomaly_count |-> 0]
    /\ batch_count = 0
    /\ idx = 0
    /\ reading = NoReading
    /\ prediction = 0
    /\ minio_success = FALSE
    /\ db_success = FALSE
    /\ log = <<>>
    /\ faults = 0
    /\ outcomes = <<>>
    /\ probed = <<>>
    /\ snapshots = {}
    /\ db_connected = "unassigned"

\* run_realtime_pipeline: the head of while True
E_begin_batch ==
    /\ pc = "e_loop"
    /\ Len(outcomes) < MaxReadings
    /\ batch_count' = batch_count + 1
    /\ idx' = 1
    /\ pc' = "e_generate"
    /\ UNCHANGED <<detector, disk, call, saver, ever_ok, exit, conn, s3_client, db,
                   buckets, stats, reading, prediction, minio_success, db_success,
                   log, faults, outcomes, probed, snapshots, db_connected>>

\* run_realtime_pipeline: generate_sensor_reading and
\* detector.predict([reading])[0]; no except clause takes an error of predict
E_generate ==
    /\ pc = "e_generate"
    /\ Len(outcomes) < MaxReadings
    /\ \E m \in Generated :
         LET rd == [id |-> <<batch_count, sensors[idx]>>,
                    temperature |-> m.temperature, humidity |-> m.humidity]
             p  == predict(detector, <<rd>>)
         IN  /\ reading' = rd
             /\ IF p.raised
                THEN /\ pc' = "e_raised"
                     /\ exit' = "predict_error"
                     /\ UNCHANGED <<prediction, outcomes>>
                ELSE /\ pc' = "e_save_to_database"
                     /\ prediction' = p.value[1]
                     /\ outcomes' = Append(outcomes, Pending(rd.id, p.value[1]))
                     /\ UNCHANGED exit
    /\ UNCHANGED <<detector, disk, call, saver, ever_ok, conn, s3_client, db, buckets,
                   stats, batch_count, idx, minio_success, db_success, log, faults,
                   probed, snapshots, db_connected>>

\* run_realtime_pipeline: self.save_to_database(reading, prediction)
E_save_to_database ==
    /\ pc = "e_save_to_database"
    /\ \E failAt \in 0..3, intAt \in 0..3 :
         /\ MayFail(failAt, intAt)
         /\ (failAt # 0 \/ intAt # 0) => conn = "open"
         /\ failAt # 0 => db.status # "inerror"
         /\ failAt = 2 => prediction = -1
         /\ LET r == e_save_to_database(conn, db, reading, prediction, failAt, intAt)
            IN  /\ db' = r.db
                /\ db_success' = r.ret
                /\ outcomes' = SetLast(outcomes, "database", r.kind)
                /\ pc' = IF r.flow = "interrupt" THEN "e_interrupted"
                         ELSE "e_save_to_file"
                /\ exit' = exit_after(r.flow, exit)
    /\ UNCHANGED <<detector, disk, call, saver, ever_ok, conn, s3_client, buckets,
                   stats, batch_count, idx, reading, prediction, minio_success, log,
                   faults, probed, snapshots, db_connected>>

\* run_realtime_pipeline: self.save_to_file(reading, prediction)
E_save_to_file ==
    /\ pc = "e_save_to_file"
    /\ \E failAt \in 0..2, intAt \in 0..2 :
         /\ MayFail(failAt, intAt)
         /\ failAt # 0 => faults < MaxFaults
         /\ LET r == e_save_to_file(buckets, reading, prediction, failAt, intAt)
            IN  /\ buckets' = r.buckets
                /\ minio_success' = (r.kind = "ok")
                /\ outcomes' = SetLast(outcomes, "minio", r.kind)
                /\ faults' = IF failAt # 0 THEN faults + 1 ELSE faults
                /\ pc' = IF r.flow = "interrupt" THEN "e_interrupted" ELSE "e_count"
                /\ exit' = exit_after(r.flow, exit)
    /\ UNCHANGED <<detector, disk, call, saver, ever_ok, conn, s3_client, db, stats,
                   batch_count, idx, reading, prediction, db_success, log, probed,
                   snapshots, db_connected>>

\* run_realtime_pipeline: reading_count, anomaly_count and the line of the
\* reading, then the next sensor
E_count ==
    /\ pc = "e_count"
    /\ stats' = [reading_count |-> stats.reading_count + 1,
                 anomaly_count |-> IF prediction = -1 THEN stats.anomaly_count + 1
                                   ELSE stats.anomaly_count]
    /\ log' = Append(log, [id |-> reading.id, ml_prediction |-> prediction])
    /\ IF idx < Len(sensors)
       THEN /\ idx' = idx + 1
            /\ pc' = "e_generate"
       ELSE /\ idx' = idx
            /\ pc' = "e_update_dashboard_metrics"
    /\ UNCHANGED <<detector, disk, call, saver, ever_ok, exit, conn, s3_client, db,
                   buckets, batch_count, reading, prediction, minio_success,
                   db_success, faults, outcomes, probed, snapshots, db_connected>>

\* run_realtime_pipeline: update_dashboard_metrics (the inserts into
\* dashboard_metrics and the commit, inside try/except Exception), the batch
\* summary and time.sleep(5)
E_update_dashboard_metrics ==
    /\ pc = "e_update_dashboard_metrics"
    /\ \E fails \in BOOLEAN :
         /\ fails => (conn = "open" /\ db.status # "inerror")
         /\ db' = insert_and_commit(conn, db, "dashboard_metrics", stats, fails)
    /\ snapshots' = snapshots \cup {stats}
    /\ pc' = "e_loop"
    /\ UNCHANGED <<detector, disk, call, saver, ever_ok, exit, conn, s3_client,
                   buckets, stats, batch_count, idx, reading, prediction,
                   minio_success, db_success, log, faults, outcomes, probed,
                   db_connected>>

\* run_realtime_pipeline: except KeyboardInterrupt, whose prints end with the
\* anomaly rate, and finally; after an error of predict finally alone.  An
\* error of the handler leaves run_realtime_pipeline after finally has run.
E_shutdown ==
    /\ pc \in {"e_loop", "e_generate", "e_save_to_database", "e_save_to_file",
               "e_count", "e_update_dashboard_metrics", "e_interrupted", "e_raised"}
    /\ exit' = IF pc = "e_raised" THEN exit ELSE "interrupt"
    /\ snapshots' = IF pc = "e_raised" THEN snapshots ELSE snapshots \cup {stats}
    /\ conn' = shutdown(conn, db).conn
    /\ db' = shutdown(conn, db).db
    /\ pc' = IF pc = "e_raised" \/ final_stats(stats).raised THEN "dead" ELSE "done"
    /\ UNCHANGED <<detector, disk, call, saver, ever_ok, s3_client, buckets,
                   stats, batch_count, idx, reading, prediction, minio_success,
                   db_success, log, faults, outcomes, probed, db_connected>>

EnhancedNext ==
    \/ E_begin_batch
    \/ E_generate
    \/ E_save_to_database
    \/ E_save_to_file
    \/ E_count
    \/ E_update_dashboard_metrics
    \/ E_shutdown

SpecEnhanced == EnhancedInit /\ [][EnhancedNext]_vars

----------------------------------------------------------------------------
(* Properties of AnomalyDetector *)

\* C9: before the first train or load_model that completes, the detector is
\* untrained and predict does not raise and returns NORMAL for every element
\* of its input, whatever the length of the input.
C9_UntrainedPredictsNormal ==
    /\ ~ever_ok => ~detector.is_trained
    /\ (call.op = "predict" /\ ~ever_ok) =>
          /\ ~call.raised
          /\ Len(call.value) = Len(call.arg)
          /\ \A i \in 1..Len(call.arg) : call.value[i] = NORMAL

\* predict of MaxLen readings, one of them anomalous, on a detector whose
\* train and load_model calls have all raised, one of them half-way
C9_Witness ==
    /\ call.op = "predict"
    /\ ~ever_ok
    /\ Len(call.arg) = MaxLen
    /\ \E i \in 1..Len(call.arg) : call.arg[i].temperature = 95
    /\ detector.model.fitted

\* C10: loading the blob that save_model wrote restores is_trained as it was
\* at the save, and predict answers every input as the saved detector did.
C10_SaveLoadRoundTrip ==
    (/\ call.op = "load_model"
     /\ ~call.raised
     /\ saver.valid
     /\ disk = Blob(saver.d.model, saver.d.scaler))
    => /\ detector.is_trained = saver.d.is_trained
       /\ \A X \in Inputs : predict(detector, X) = predict(saver.d, X)

\* C11: train of a non-empty sequence completes and leaves is_trained true;
\* train of an empty sequence raises and leaves the detector as it was.
C11_TrainEmptyLeavesState ==
    [][call'.op = "train" =>
          IF Len(call'.arg) = 0
          THEN call'.raised /\ detector' = detector
          ELSE ~call'.raised /\ detector'.is_trained]_vars

----------------------------------------------------------------------------
(* Properties of MonitoredPipeline *)

Ids(S) == { o.id : o \in S }
Last(seq) == seq[Len(seq)]

\* C3: the committed store never holds the reading row of a write that was
\* reported failed or was abandoned, and never holds the row of an ANOMALOUS
\* reading without its alert row.
C3_ReadingAndAlertInOneTransaction ==
    /\ \A i \in DOMAIN outcomes :
          outcomes[i].database \in {"failed", "interrupted"} =>
             outcomes[i].id \notin Ids(db.sensor_readings)
    /\ \A row \in db.sensor_readings :
          row.ml_prediction = ANOMALOUS => row.id \in Ids(db.anomaly_alerts)

\* C1: the object-store sink files every reading it stores under bronze and
\* under exactly one of silver and gold: silver for prediction 0, gold for
\* prediction -1; no reading is in both, and none is in silver or gold
\* without being in bronze.
C1_TierRouting ==
    /\ prediction \in {NORMAL, ANOMALOUS}
    /\ \A o \in buckets.silver : o.ml_prediction = NORMAL
    /\ \A o \in buckets.gold : o.ml_prediction = ANOMALOUS
    /\ Ids(buckets.silver) \cap Ids(buckets.gold) = {}
    /\ Ids(buckets.silver) \cup Ids(buckets.gold) \subseteq Ids(buckets.bronze)
    /\ \A i \in DOMAIN outcomes :
          outcomes[i].minio = "ok" =>
             /\ outcomes[i].id \in Ids(buckets.bronze)
             /\ outcomes[i].ml_prediction = NORMAL =>
                   /\ outcomes[i].id \in Ids(buckets.silver)
                   /\ outcomes[i].id \notin Ids(buckets.gold)
             /\ outcomes[i].ml_prediction = ANOMALOUS =>
                   /\ outcomes[i].id \in Ids(buckets.gold)
                   /\ outcomes[i].id \notin Ids(buckets.silver)

C1_Witness ==
    /\ \E i \in DOMAIN outcomes :
          outcomes[i].minio = "ok" /\ outcomes[i].ml_prediction = ANOMALOUS
    /\ \E i \in DOMAIN outcomes :
          outcomes[i].minio = "ok" /\ outcomes[i].ml_prediction = NORMAL

\* C2 as stated: every dispatched reading has an alert row exactly when it is
\* ANOMALOUS, and every reading written to gold has one.
C2_AlertIffRoutedToGold ==
    /\ \A i \in DOMAIN log :
          (log[i].id \in Ids(db.anomaly_alerts)) <=> (log[i].ml_prediction = ANOMALOUS)
    /\ \A o \in buckets.gold :
          o.id \in { log[i].id : i \in DOMAIN log } => o.id \in Ids(db.anomaly_alerts)

\* C2 as amended: a reading whose relational write succeeded has an alert row
\* exactly when it is ANOMALOUS; an alert row always comes with the row of an
\* ANOMALOUS reading; a reading in silver never has one; a write that failed
\* or was skipped leaves none.
C2_AlertIffAnomalousWhenStored ==
    /\ \A a \in db.anomaly_alerts :
          \E row \in db.sensor_readings :
              row.id = a.id /\ row.ml_prediction = ANOMALOUS
    /\ Ids(buckets.silver) \cap Ids(db.anomaly_alerts) = {}
    /\ \A i \in DOMAIN outcomes :
          /\ outcomes[i].database = "ok" =>
                /\ outcomes[i].id \in Ids(db.sensor_readings)
                /\ (outcomes[i].id \in Ids(db.anomaly_alerts))
                      <=> (outcomes[i].ml_prediction = ANOMALOUS)
          /\ outcomes[i].database \in {"failed", "skipped"} =>
                outcomes[i].id \notin Ids(db.anomaly_alerts)

C2_Witness ==
    /\ pc = "count"
    /\ Last(outcomes).database = "ok"
    /\ Last(outcomes).minio = "ok"
    /\ prediction = ANOMALOUS
    /\ reading.id \in Ids(buckets.gold)
    /\ reading.id \in Ids(db.anomaly_alerts)

\* C4: when the loop moves on from a reading, both sink writes have been
\* invoked for it, whatever the first one returned.
C4_BothSinksInvoked ==
    /\ pc = "count" =>
          /\ Last(outcomes).minio # "pending"
          /\ Last(outcomes).database # "pending"
    /\ \A i \in DOMAIN log :
          /\ outcomes[i].id = log[i].id
          /\ outcomes[i].minio \in {"ok", "failed", "skipped"}
          /\ outcomes[i].database \in {"ok", "failed", "skipped"}

C4_Witness ==
    /\ Len(log) >= 2
    /\ outcomes[1].minio = "failed" /\ outcomes[1].database = "ok"
    /\ outcomes[2].minio = "ok" /\ outcomes[2].database = "failed"

\* C5: a backend error inside a sink write never reaches run_pipeline: the
\* write returns False and the loop goes on.
C5_SinkNeverRaises ==
    /\ exit # "sink_error"
    /\ pc = "crashed" => exit = "predict_error"
    /\ (pc = "save_to_database" /\ Last(outcomes).minio = "failed") => ~minio_success
    /\ (pc = "count" /\ Last(outcomes).database = "failed") => ~db_success
    /\ (pc = "count" /\ Last(outcomes).minio = "failed") => ~minio_success

C5_Witness ==
    /\ pc = "count"
    /\ exit = "none"
    /\ Last(outcomes).minio = "failed"
    /\ Last(outcomes).database = "failed"
    /\ prediction = ANOMALOUS

\* C12: whatever the model file holds and whatever the save of a freshly
\* trained model does, construction gets past load_model with a trained
\* detector and the process is not ended by it.
C12_ModelLoadNeverFatal ==
    pc # "load_model" => (detector.is_trained /\ pc # "dead" /\ exit # "startup")

\* C13: when setup_database could not reach the relational store, the cycle
\* loop is never entered: no reading is generated, classified, written to a
\* sink or counted.
C13_DbUnreachableIsFatal ==
    (conn = "None" /\ pc \notin {"load_model", "setup_database"}) =>
       /\ pc \notin LoopPcs
       /\ outcomes = <<>>
       /\ log = <<>>
       /\ buckets = EmptyBuckets
       /\ stats = ZeroStats

\* the step in which the write of the reading in flight to the sink `field`
\* returns because the sink is disabled
SkippedWrite(field) ==
    /\ Len(outcomes) > 0
    /\ Len(outcomes') = Len(outcomes)
    /\ Last(outcomes)[field] = "pending"
    /\ Last(outcomes')[field] = "skipped"

\* C14: a write to a disabled sink returns False and touches no backend:
\* neither the object store nor the relational store is called on its behalf.
C14_DisabledWriteDoesNoIO ==
    [][(SkippedWrite("minio") \/ SkippedWrite("database")) =>
          /\ db' = db
          /\ buckets' = buckets
          /\ SkippedWrite("minio") => ~minio_success'
          /\ SkippedWrite("database") => ~db_success']_vars

\* C15: the value a sink write returns after a backend error differs from the
\* value the same write returns when the sink is disabled.
C15_DisabledDistinguishedFromFailed ==
    /\ (pc = "save_to_database" /\ Last(outcomes).minio = "failed") =>
          minio_success # save_to_minio(0, buckets, stats, reading, prediction, 0, 0).ret
    /\ (pc = "count" /\ Last(outcomes).database = "failed") =>
          db_success # save_to_database("None", db, stats, reading, prediction, 0, 0).ret

\* C16: each write to a disabled sink adds exactly one to the count of failed
\* writes (self.stats['errors'], the only failure counter the sinks keep).
C16_DisabledWriteCountsAsFailure ==
    [][(SkippedWrite("minio") \/ SkippedWrite("database")) =>
          stats'.errors = stats.errors + 1]_vars

StartupPcs == {"load_model", "setup_database", "setup_minio"}

\* C17: once construction is over no step changes whether a sink has a client
\* or a connection, and no endpoint is probed: a sink disabled at startup
\* stays disabled.
C17_SinkStateDecidedAtStartup ==
    [][pc \notin StartupPcs =>
          /\ s3_client' = s3_client
          /\ conn = "None" => conn' = "None"
          /\ probed' = probed]_vars

\* two readings counted while both sinks are disabled, every endpoint having
\* been probed once
C17_Witness ==
    /\ pc = "sleep"
    /\ Len(log) >= 2
    /\ s3_client = 0
    /\ conn = "None"
    /\ Len(probed) = NumEndpoints
    /\ \A i \in DOMAIN outcomes :
          outcomes[i].minio = "skipped" /\ outcomes[i].database = "skipped"

\* C18: setup_minio probes the endpoints in list order, keeps the first one
\* whose probe succeeds and probes none after it; when every probe fails
\* there is no client.
C18_FirstRespondingEndpointAdopted ==
    (pc \notin StartupPcs /\ pc # "dead") =>
       /\ Len(probed) <= NumEndpoints
       /\ \A i \in DOMAIN probed : probed[i].endpoint = endpoints[i]
       /\ \A i \in DOMAIN probed : probed[i].ok <=> (i = Len(probed) /\ s3_client # 0)
       /\ s3_client # 0 => Last(probed).endpoint = s3_client
       /\ s3_client = 0 => Len(probed) = NumEndpoints

\* the first endpoint did not answer, the second did and the third was not tried
C18_Witness ==
    /\ pc = "loop"
    /\ s3_client = endpoints[2]
    /\ Len(probed) = 2
    /\ ~probed[1].ok

\* C19: when the run has been stopped by the interrupt, no reading has been
\* written to a sink without being counted, and no reading has had only some
\* of its sink writes attempted.
C19_InterruptFinishesReading ==
    (pc = "done" /\ exit = "interrupt") =>
       \A i \in DOMAIN outcomes :
          /\ (outcomes[i].minio = "ok" \/ outcomes[i].database \in {"ok", "unreported"})
                => (i <= Len(log) /\ i <= stats.total_readings)
          /\ outcomes[i].minio # "pending" => outcomes[i].database # "pending"

\* C6: an error raised while a reading is dispatched never ends the cycle
\* loop or the process; the run ends only at startup or by the interrupt.
C6_DispatchErrorsAbsorbed ==
    /\ exit \in {"none", "startup", "interrupt"}
    /\ pc \notin {"crashed", "g_crashed", "s_raised"}
    /\ pc = "dead" => exit = "startup"

FailedOutcome == {"failed", "skipped"}

\* no reading is between its first sink write and its count
Settled == pc \in {"loop", "generate", "count", "update_pipeline_stats", "sleep"}

\* C7: errors equals the number of readings with at least one
\* failed sink outcome.
C7_ErrorsOncePerFailedReading ==
    Settled =>
       stats.errors =
          Cardinality({ i \in DOMAIN outcomes :
                          \/ outcomes[i].minio \in FailedOutcome
                          \/ outcomes[i].database \in FailedOutcome })

\* what the except clauses of the two sinks count: sink writes that ended in
\* a backend error, two for a reading whose writes both failed, none for a
\* write skipped because its sink is disabled
ErrorsCountBackendErrors ==
    stats.errors =
       Cardinality({ i \in DOMAIN outcomes : outcomes[i].minio = "failed" })
       + Cardinality({ i \in DOMAIN outcomes : outcomes[i].database = "failed" })

\* C8: at the end of a completed cycle total_readings is cycles x sensors and
\* anomalies_detected is the number of dispatched readings classified
\* ANOMALOUS, whatever the sink writes did.
C8_CountsAtCycleEnd ==
    pc \in {"update_pipeline_stats", "sleep"} =>
       /\ stats.total_readings = batch_count * Len(sensors)
       /\ stats.anomalies_detected =
             Cardinality({ i \in DOMAIN outcomes : outcomes[i].ml_prediction = ANOMALOUS })

C8_Witness ==
    /\ pc = "update_pipeline_stats"
    /\ batch_count = 2
    /\ stats.anomalies_detected = 1
    /\ s3_client = 0
    /\ \E i \in DOMAIN outcomes : outcomes[i].database = "failed"

\* C20: every stats snapshot that is printed or persisted (the status print,
\* the pipeline_stats row, the print at the interrupt) has each per-sink
\* success counter and anomalies_detected at most total_readings
C20_SnapshotsConsistent ==
    \A sn \in snapshots :
       /\ sn.anomalies_detected <= sn.total_readings
       /\ \A f \in DOMAIN sn \cap {"db_saves", "minio_uploads", "files_created"} :
             sn[f] <= sn.total_readings

\* C21: within one reading the sink writes come before the stats update: no
\* counter of stats changes for a reading while one of its sink writes has
\* not yet been attempted
C21_StatsAfterAllSinkWrites ==
    [][stats' # stats =>
          /\ Len(outcomes') > 0
          /\ Last(outcomes').minio # "pending"
          /\ Last(outcomes').database # "pending"]_vars

\* the records a tier of the file sink holds
recoverable(tier) == {f.row : f \in buckets[tier]}

\* C22: every reading whose local-file write was reported successful is
\* still present in the bronze tier and in its silver or gold tier, whatever
\* was written after it
C22_FileRecordsRecoverable ==
    \A i \in DOMAIN outcomes :
       outcomes[i].minio = "ok" =>
          LET row == [id |-> outcomes[i].id, ml_prediction |-> outcomes[i].ml_prediction]
          IN  /\ row \in recoverable("bronze")
              /\ row \in recoverable(tier_for(outcomes[i].ml_prediction))

\* C23: extract_features gives every record the triple (temperature,
\* humidity, ratio), the ratio being temperature/humidity when humidity is
\* not 0 and 0 when it is 0, at training and at inference alike
C23_FeatureTriple ==
    call.op \in {"train", "predict"} =>
       \A i \in DOMAIN call.arg :
          LET r == call.arg[i] IN
          extract_features(call.arg)[i] =
             <<r.temperature, r.humidity,
               IF r.humidity # 0 THEN <<r.temperature, r.humidity>> ELSE <<0, 1>>>>

\* C24: every record of a non-empty micro-batch that process_batch has
\* written is in bronze, and in silver alone when its prediction is 0, in
\* gold alone when it is -1
C24_BronzeCopyOfEveryRecord ==
    \A i \in DOMAIN outcomes :
       outcomes[i].minio = "ok" =>
          LET row == [id |-> outcomes[i].id, ml_prediction |-> outcomes[i].ml_prediction]
          IN  /\ row \in buckets.bronze
              /\ row \in buckets.silver <=> outcomes[i].ml_prediction = 0
              /\ row \in buckets.gold <=> outcomes[i].ml_prediction = -1

\* C25: on every exit from the cycle loop, by an interrupt or by an error,
\* the connection is closed, and once it is closed nothing more is written
\* or committed through it
C25_ConnectionClosedOnExit ==
    [][/\ pc' = "done" => conn' # "open"
       /\ conn = "closed" => (conn' = "closed" /\ db' = db)]_vars

C25_Witness ==
    /\ pc = "done"
    /\ exit = "interrupt"
    /\ conn = "closed"
    /\ Len(log) > 0
    /\ db.sensor_readings # {}

\* psycopg2.connect, every CREATE TABLE and the commit of setup_database
\* succeeded: the connection is open with no failed transaction and every
\* table is there
TablesCreated ==
    /\ conn = "open"
    /\ db.status = "idle"
    /\ \A i \in DOMAIN tables : <<"tables", tables[i]>> \in db.others

\* C26: after the construction of ResilientPipeline db_connected is True
\* exactly when the connection and the table creation succeeded; then
\* run_pipeline enters the cycle loop, and otherwise it returns
C26_DbConnectedIffSetupSucceeded ==
    /\ pc \in {"r_main", "r_loop", "done"} => (db_connected = "True" <=> TablesCreated)
    /\ pc = "r_loop" => TablesCreated
    /\ (pc = "done" /\ exit = "no_database") => ~TablesCreated

\* C27: a failed write does not leave the relational sink failing: whenever
\* save_to_database is about to run on an open connection, a write whose
\* statements the backend accepts is committed and reported as succeeded
C27_FailedWriteLeavesSinkUsable ==
    (pc = "save_to_database" /\ conn = "open") =>
       LET r == save_to_database(conn, db, stats, reading, prediction, 0, 0)
       IN  /\ r.ret
           /\ Row(reading, prediction) \in r.db.sensor_readings

\* C28: a load_model that fails, whatever the reason, leaves the classifier,
\* the scaler and is_trained exactly as they were before the call
C28_FailedLoadLeavesState ==
    [][(call'.op = "load_model" /\ call'.raised) => detector' = detector]_vars

\* C29: the shutdown after an interrupt completes without raising wherever
\* the interrupt arrives, also before any reading has been counted: the
\* final statistics are reported and the connection is closed
C29_InterruptShutdownCompletes ==
    (exit = "interrupt" /\ pc \in {"done", "dead"}) =>
       /\ pc = "done"
       /\ conn # "open"
       /\ stats \in snapshots

\* C30: within one object-store write the bronze copy comes before the
\* silver or gold copy and the success counter after both: every reading in
\* silver or gold is also in bronze, and minio_uploads never exceeds the
\* number of readings that have both copies
C30_BronzeBeforeTier ==
    /\ (buckets.silver \cup buckets.gold) \subseteq buckets.bronze
    /\ stats.minio_uploads <= Cardinality(buckets.silver \cup buckets.gold)

C30_Witness ==
    /\ Len(outcomes) > 0
    /\ Last(outcomes).minio = "failed"
    /\ [id |-> Last(outcomes).id, ml_prediction |-> Last(outcomes).ml_prediction]
          \in buckets.bronze \ (buckets.silver \cup buckets.gold)
    /\ stats.minio_uploads > 0

====
